---- MODULE Spec2Model ----
(***************************************************************************)
(* Roll-DPoS consensus FSM of iotex-core (package rolldpos, fsm.go).       *)
(* One node is modelled: its event queue, its delayed producers, the       *)
(* clock, the round and epoch contexts and the chain tip.  The network,    *)
(* the chain and the clock are the environment.                            *)
(***************************************************************************)
EXTENDS Bags, FiniteSets, Integers, Naturals, Sequences, TLC

\* ------------------------------------------------------------------------
\* Bounds of the model
\* ------------------------------------------------------------------------
MaxTime == 4
MaxRounds == 2
MaxInject == 4
MaxPropose == 1

\* the proposer interval of the runs in which a round is shorter than the
\* interval, in clock ticks
SlowProposerInterval == 3

\* ------------------------------------------------------------------------
\* Configuration (config.RollDPoS): the setting in which every interval and
\* every TTL lasts one clock tick, an epoch has one sub-epoch and the event
\* channel holds two events
\* ------------------------------------------------------------------------
DelegateInterval == 1
ProposerInterval == 1
UnmatchedEventTTL == 1
UnmatchedEventInterval == 1
AcceptProposeTTL == 1
AcceptProposalEndorseTTL == 1
AcceptCommitEndorseTTL == 1
NumSubEpochs == 1
EventChanSize == 2

\* ------------------------------------------------------------------------
\* FSM states and event types
\* ------------------------------------------------------------------------
sEpochStart == "S_EPOCH_START"
sDKGGeneration == "S_DKG_GENERATION"
sRoundStart == "S_ROUND_START"
sInitPropose == "S_INIT_PROPOSE"
sAcceptPropose == "S_ACCEPT_PROPOSE"
sAcceptProposalEndorse == "S_ACCEPT_PROPOSAL_ENDROSE"
sAcceptCommitEndorse == "S_ACCEPT_COMMIT_ENDORSE"
sInvalid == "S_INVALID"

consensusStates ==
  {sEpochStart, sDKGGeneration, sRoundStart, sInitPropose, sAcceptPropose,
   sAcceptProposalEndorse, sAcceptCommitEndorse}

eRollDelegates == "E_ROLL_DELEGATES"
eGenerateDKG == "E_GENERATE_DKG"
eStartRound == "E_START_ROUND"
eInitBlock == "E_INIT_BLOCK"
eProposeBlock == "E_PROPOSE_BLOCK"
eProposeBlockTimeout == "E_PROPOSE_BLOCK_TIMEOUT"
eEndorseProposal == "E_ENDORSE_PROPOSAL"
eEndorseProposalTimeout == "E_ENDORSE_PROPOSAL_TIMEOUT"
eEndorseCommit == "E_ENDORSE_COMMIT"
eEndorseCommitTimeout == "E_ENDORSE_COMMIT_TIMEOUT"
eFinishEpoch == "E_FINISH_EPOCH"

TimeoutTypes == {eProposeBlockTimeout, eEndorseProposalTimeout, eEndorseCommitTimeout}

endorseProposal == FALSE
endorseCommit == TRUE

\* ------------------------------------------------------------------------
\* Addresses, blocks, endorsements
\* ------------------------------------------------------------------------
Candidates == <<"A", "B", "C", "D">>

NilBlock ==
  [height |-> 0, producer |-> "", sigOK |-> FALSE, chainOK |-> FALSE,
   dkg |-> "none", payload |-> 0, dummy |-> FALSE, ts |-> 0]

\* sigOK: whether the signature the endorsement holds verifies
NilEndorse ==
  [topic |-> FALSE, height |-> 0, blkHash |-> <<0, "", 0>>, decision |-> FALSE,
   endorser |-> "", sigOK |-> FALSE]

\* blockchain.Block.HashBlock: a digest of the header; two blocks with the same
\* height, producer and payload have the same hash, any other pair differs.
HashBlock(blk) == <<blk.height, blk.producer, blk.payload>>

VARIABLES
  state,      \* fsm.CurrentState()
  now,        \* reading of ctx.clock
  evtq,       \* cFSM.evtq, the buffered channel
  delayed,    \* goroutines of produce() sleeping on clock.After: bag of [evt, due]
  round,      \* ctx.round
  epoch,      \* ctx.epoch
  tip,        \* chain.TipHeight()
  tipTime,    \* timestamp of the tip block
  cfg,        \* cfg.EnableDummyBlock, cfg.NumDelegates and cfg.ProposerInterval
  addr,       \* ctx.addr.RawAddress
  roundNum,   \* history: number of StartRound events handled
  apeAt,      \* history: clock reading at which this round entered
              \* AcceptProposalEndorse, 0 before it did
  net,        \* the network: what the other nodes send in this run, and how much
              \* of it they have sent
  last,       \* history: what the worker did with the event it dequeued last
  closed,     \* cFSM.close has been closed by Stop
  running,    \* the worker of Start is in its loop (it holds one count of wg)
  sending,    \* goroutines of produce() past clock.After, at m.evtq <- evt: bag of events
  stopped,    \* Stop has returned from wg.Wait
  lateSend,   \* history: a delayed producer has added to the channel after the close
  blocked,    \* the worker inside produce, at m.evtq <- evt: what it has yet to produce
  committed,  \* history: calls of chain.CommitBlock since the last StartRound handled
  call        \* a function of the package called on its own: the function, its
              \* argument, its result

\* no function has been called on its own
NoCall == [op |-> "none", arg |-> << >>, res |-> << >>]

vars ==
  <<state, now, evtq, delayed, round, epoch, tip, tipTime, cfg, addr, roundNum,
    apeAt, net, last, closed, running, sending, stopped, lateSend, blocked, committed, call>>

\* what Stop and the goroutines leaving on it change
shutdown == <<closed, running, stopped>>

\* ------------------------------------------------------------------------
\* Events
\* ------------------------------------------------------------------------
\* rnd is history only: the number of the round in which the event was created.
newCEvt(t, clk, rid) ==
  [t |-> t, kind |-> "consensusEvt", ts |-> clk, block |-> NilBlock,
   endorse |-> NilEndorse, rnd |-> rid]

newProposeBlkEvt(blk, clk, rid) ==
  [t |-> eProposeBlock, kind |-> "proposeBlkEvt", ts |-> clk, block |-> blk,
   endorse |-> NilEndorse, rnd |-> rid]

newEndorseEvtWithEndorse(en, clk, rid) ==
  [t |-> IF en.topic = endorseProposal THEN eEndorseProposal ELSE eEndorseCommit,
   kind |-> "endorseEvt", ts |-> clk, block |-> NilBlock, endorse |-> en,
   rnd |-> rid]

\* endorse.Sign cannot fail here: ValidateKeyPair has checked the private key.
newEndorseEvt(topic, blkHash, decision, height, endorser, clk, rid) ==
  newEndorseEvtWithEndorse(
    [topic |-> topic, height |-> height, blkHash |-> blkHash,
     decision |-> decision, endorser |-> endorser, sigOK |-> TRUE], clk, rid)

\* cFSM.newTimeoutEvt(t, height) drops its height argument: the event carries
\* the clock reading only.
newTimeoutEvt(t, clk, rid) ==
  [t |-> t, kind |-> "timeoutEvt", ts |-> clk, block |-> NilBlock,
   endorse |-> NilEndorse, rnd |-> rid]

\* ------------------------------------------------------------------------
\* The transition table of newConsensusFSM (without the backdoor edges)
\* ------------------------------------------------------------------------
HasEdge(s, t) ==
  \/ s = sEpochStart /\ t = eRollDelegates
  \/ s = sDKGGeneration /\ t = eGenerateDKG
  \/ s = sRoundStart /\ t \in {eStartRound, eFinishEpoch}
  \/ s = sInitPropose /\ t = eInitBlock
  \/ s = sAcceptPropose /\ t \in {eProposeBlock, eProposeBlockTimeout}
  \/ s = sAcceptProposalEndorse /\ t \in {eEndorseProposal, eEndorseProposalTimeout}
  \/ s = sAcceptCommitEndorse /\ t \in {eEndorseCommit, eEndorseCommitTimeout}

\* ------------------------------------------------------------------------
\* produce: a delayed event is held by a goroutine until the clock reaches
\* due, an undelayed one is sent to the channel at once.  qd = [q, d].
\* ------------------------------------------------------------------------
Produce(qd, evt, delay, clk) ==
  IF delay > 0
  THEN [q |-> qd.q, d |-> qd.d (+) SetToBag({[evt |-> evt, due |-> clk + delay]})]
  ELSE [q |-> Append(qd.q, evt), d |-> qd.d]

RECURSIVE ProduceAll(_, _, _)
ProduceAll(qd, ps, clk) ==
  IF ps = << >> THEN qd
  ELSE ProduceAll(Produce(qd, Head(ps).evt, Head(ps).delay, clk), Tail(ps), clk)

P(evt, delay) == [evt |-> evt, delay |-> delay]

\* ------------------------------------------------------------------------
\* Round and epoch contexts
\* ------------------------------------------------------------------------
EmptyMap == [x \in {} |-> TRUE]

\* the zero value of roundCtx, before the first StartRound
ZeroRound ==
  [height |-> 0, timestamp |-> 0, proposer |-> "", block |-> NilBlock,
   proposalEndorses |-> EmptyMap, commitEndorses |-> EmptyMap]

\* the zero value of epochCtx, before the first RollDelegates
ZeroEpoch ==
  [num |-> 0, height |-> 0, delegates |-> << >>, numSubEpochs |-> 0,
   dkg |-> "none", seed |-> << >>]

\* endorses := m[blkHash]; if endorses == nil { m[blkHash] = {} };
\* endorses[endorser] = decision
TallyPut_keep(m, blkHash, endorser, decision) ==
  LET inner == IF blkHash \in DOMAIN m THEN m[blkHash] ELSE EmptyMap
  IN  (blkHash :> (inner @@ (endorser :> decision))) @@ m

TallyPut(m, blkHash, endorser, decision) ==
  LET inner == IF blkHash \in DOMAIN m THEN m[blkHash] ELSE EmptyMap
  IN  (blkHash :> ((endorser :> decision) @@ inner)) @@ m

CeilDiv(a, b) == (a + b - 1) \div b

\* rollDPoSCtx.calcQuorum: (yes, no) over one block hash's decisions, with the
\* threshold of two thirds of the committee, rounded up, plus one.
calcQuorum(decisions, numDelegates) ==
  LET yesN == Cardinality({a \in DOMAIN decisions : decisions[a]})
      noN == Cardinality({a \in DOMAIN decisions : ~decisions[a]})
      need == CeilDiv(2 * numDelegates, 3) + 1
  IN  [yes |-> yesN >= need, no |-> noN >= need]

\* rollDPoSCtx.getNumSubEpochs: the configured number, 1 when none is configured
getNumSubEpochs(configured) == IF configured > 0 THEN configured ELSE 1

\* rollDPoSCtx.calcEpochNumAndHeight: the epoch of the next block to mint
calcEpochNum(tipHeight, numDelegates) ==
  tipHeight \div (numDelegates * getNumSubEpochs(cfg.NumSubEpochs)) + 1

calcEpochHeight(epochNum, numDelegates) ==
  (epochNum - 1) * numDelegates * getNumSubEpochs(cfg.NumSubEpochs) + 1

\* rollDPoSCtx.rollingDelegates: the first NumDelegates candidates
rollingDelegates(epochNum, numDelegates) == SubSeq(Candidates, 1, numDelegates)

\* rollDPoSCtx.calcProposer without time based rotation: D[(h - h0) mod |D|]
calcProposer(height, ep) ==
  ep.delegates[((height - ep.height) % Len(ep.delegates)) + 1]

\* rollDPoSCtx.isEpochFinished
isEpochFinished(tipHeight, ep) ==
  tipHeight >= ep.height + Len(ep.delegates) * ep.numSubEpochs - 1

\* handleEndorseProposalEvt / handleEndorseCommitEvt: if !yes && !no
noQuorum_yesOnly(q) == ~q.yes

noQuorum(q) == ~q.yes /\ ~q.no

isDelegate(a, delegates) == \E i \in 1..Len(delegates) : delegates[i] = a

\* cFSM.Start: the staleness test of a dequeued event
IsStale_after(evt, rnd) == evt.kind = "timeoutEvt" /\ rnd.timestamp < evt.ts

IsStale(evt, rnd) == evt.kind = "timeoutEvt" /\ evt.ts < rnd.timestamp

\* cFSM.Start: whether an event without an edge is produced again
Redeliver_always(evt, clk) == TRUE

Redeliver_expired(evt, clk) == clk - evt.ts > UnmatchedEventTTL

Redeliver_lt(evt, clk) == clk - evt.ts < UnmatchedEventTTL

Redeliver(evt, clk) == clk - evt.ts <= UnmatchedEventTTL

\* cFSM.validateProposeBlock
validateProposeBlock_noSelfSkip(blk, expectedProposer, rnd, self) ==
  IF blk.height # rnd.height THEN FALSE
  ELSE IF blk.producer = "" \/ blk.producer # expectedProposer THEN FALSE
  ELSE IF ~blk.sigOK THEN FALSE
  ELSE IF ~blk.chainOK THEN FALSE
  ELSE IF blk.dkg = "bad" THEN FALSE
  ELSE TRUE

validateProposeBlock_anyProducer(blk, expectedProposer, rnd, self) ==
  IF blk.height # rnd.height THEN FALSE
  ELSE IF ~blk.sigOK THEN FALSE
  ELSE IF blk.producer = self THEN TRUE
  ELSE IF ~blk.chainOK THEN FALSE
  ELSE IF blk.dkg = "bad" THEN FALSE
  ELSE TRUE

validateProposeBlock(blk, expectedProposer, rnd, self) ==
  IF blk.height # rnd.height THEN FALSE
  ELSE IF blk.producer = "" \/ blk.producer # expectedProposer THEN FALSE
  ELSE IF ~blk.sigOK THEN FALSE
  ELSE IF blk.producer = self THEN TRUE
  ELSE IF ~blk.chainOK THEN FALSE
  ELSE IF blk.dkg = "bad" THEN FALSE
  ELSE TRUE

\* cFSM.validateEndorse
validateEndorse_checked(en, expectedEndorseTopic, rnd) ==
  IF en.topic # expectedEndorseTopic THEN FALSE
  ELSE IF en.height # rnd.height THEN FALSE
  ELSE IF ~isDelegate(en.endorser, epoch.delegates) THEN FALSE
  ELSE IF ~en.sigOK THEN FALSE
  ELSE TRUE

validateEndorse(en, expectedEndorseTopic, rnd) ==
  IF en.topic # expectedEndorseTopic THEN FALSE
  ELSE IF en.height # rnd.height THEN FALSE
  ELSE TRUE

\* blockchain.MintNewBlock / MintNewDummyBlock at the tip
MintNewBlock(tipHeight, self, clk) ==
  [height |-> tipHeight + 1, producer |-> self, sigOK |-> TRUE, chainOK |-> TRUE,
   dkg |-> "good", payload |-> 1, dummy |-> FALSE, ts |-> clk]

MintNewDummyBlock(tipHeight, clk) ==
  [height |-> tipHeight + 1, producer |-> "", sigOK |-> FALSE, chainOK |-> TRUE,
   dkg |-> "none", payload |-> 0, dummy |-> TRUE, ts |-> clk]

\* wire messages handed to p2p.Broadcast
ProposePb(blk) == [msg |-> "ProposePb", block |-> blk, endorse |-> NilEndorse]

EndorsePb(en) == [msg |-> "EndorsePb", block |-> NilBlock, endorse |-> en]

BlockPb(blk) == [msg |-> "BlockPb", block |-> blk, endorse |-> NilEndorse]

\* ------------------------------------------------------------------------
\* The worker of cFSM.Start: one action per way of treating the dequeued event
\* ------------------------------------------------------------------------
NoLast ==
  [outcome |-> "none", evt |-> newCEvt("", 0, 0), src |-> "", produced |-> << >>,
   commits |-> << >>, bcast |-> << >>, bcastOK |-> TRUE, reset |-> FALSE,
   prev |-> "none"]

\* history: the decision the tally of the event's topic held, before the
\* event was dequeued, for the event's block hash and endorser
PrevDecision(evt) ==
  LET m == IF evt.t = eEndorseProposal THEN round.proposalEndorses
           ELSE round.commitEndorses
      en == evt.endorse
  IN  IF evt.kind # "endorseEvt" THEN "none"
      ELSE IF en.blkHash \notin DOMAIN m THEN "none"
      ELSE IF en.endorser \notin DOMAIN m[en.blkHash] THEN "none"
      ELSE IF m[en.blkHash][en.endorser] THEN "true" ELSE "false"

\* What every worker step does with the queue, the producers and the state:
\* the event is taken off the channel, `produced` is handed to produce() in
\* order, and fsm.Handle moves to dst (the handlers pass the source state as
\* dst when they return an error).
\* fsm.Handle: the current state after a transition function has returned dst;
\* a transition that returns an error leaves the current state as it was
fsmHandle_move(src, outcome, dst) == dst

fsmHandle(src, outcome, dst) == IF outcome = "error" THEN src ELSE dst

\* RollDPoS.Handle on a goroutine of the network: what it may add to the
\* channel between the worker's receive and the sends of the handler.  Only a
\* flooding network is followed that closely.
FloodEvt ==
  newEndorseEvtWithEndorse(
    [topic |-> endorseProposal, height |-> tip + 1, blkHash |-> <<tip + 1, "", 1>>,
     decision |-> TRUE, endorser |-> IF addr = "D" THEN "A" ELSE "D",
     sigOK |-> FALSE], now, roundNum)

Arrivals(q) ==
  IF net.profile = "flood" /\ net.sent < MaxInject /\ Len(q) < EventChanSize
  THEN {<< >>, <<FloodEvt>>}
  ELSE {<< >>}

\* produce on the worker's goroutine, one call after the other: a delayed
\* event is given to a goroutine of its own, an undelayed one is sent to the
\* channel, and the worker stays in that send while the channel is full.
\* rest: the calls not completed.
RECURSIVE produceOnWorker(_, _, _)
produceOnWorker(qd, ps, clk) ==
  IF ps = << >> THEN [q |-> qd.q, d |-> qd.d, rest |-> << >>]
  ELSE IF Head(ps).delay <= 0 /\ Len(qd.q) >= EventChanSize
  THEN [q |-> qd.q, d |-> qd.d, rest |-> ps]
  ELSE produceOnWorker(Produce(qd, Head(ps).evt, Head(ps).delay, clk), Tail(ps), clk)

Finish(evt, outcome, dst, produced, commits, bcast, bcastOK) ==
  \E arrived \in Arrivals(Tail(evtq)) :
    LET qd == produceOnWorker([q |-> Tail(evtq) \o arrived, d |-> delayed], produced, now)
        cur == fsmHandle(state, outcome, dst)
    IN  /\ running
        /\ blocked = << >>
        /\ evtq' = qd.q
        /\ delayed' = qd.d
        /\ blocked' = qd.rest
        /\ committed' = IF outcome = "handled" /\ evt.t = eStartRound /\ qd.rest = << >>
                        THEN 0
                        ELSE committed + Len(commits)
        /\ net' = [net EXCEPT !.sent = @ + Len(arrived)]
        /\ IF qd.rest = << >>
           THEN /\ state' = cur
                /\ apeAt' = IF cur = sAcceptProposalEndorse /\ state # sAcceptProposalEndorse
                            THEN now
                            ELSE IF state = sRoundStart /\ cur \in {sInitPropose, sAcceptPropose}
                            THEN 0
                            ELSE apeAt
                /\ last' = [outcome |-> outcome, evt |-> evt, src |-> state,
                            produced |-> produced, commits |-> commits, bcast |-> bcast,
                            bcastOK |-> bcastOK, reset |-> commits # << >>,
                            prev |-> PrevDecision(evt)]
           ELSE /\ state' = state
                /\ apeAt' = apeAt
                /\ last' = [outcome |-> "blocked", evt |-> evt, src |-> state,
                            produced |-> SubSeq(produced, 1, Len(produced) - Len(qd.rest)),
                            commits |-> commits,
                            bcast |-> IF commits # << >> THEN bcast ELSE << >>,
                            bcastOK |-> bcastOK, reset |-> commits # << >>,
                            prev |-> PrevDecision(evt)]
        /\ UNCHANGED <<sending, lateSend>>

DropStale ==
  /\ evtq # << >>
  /\ IsStale(Head(evtq), round)
  /\ Finish(Head(evtq), "stale", state, << >>, << >>, << >>, TRUE)
  /\ UNCHANGED <<now, round, epoch, tip, tipTime, cfg, shutdown, addr, call, roundNum>>

Unmatched ==
  /\ evtq # << >>
  /\ ~IsStale(Head(evtq), round)
  /\ ~HasEdge(state, Head(evtq).t)
  /\ IF Redeliver(Head(evtq), now)
     THEN Finish(Head(evtq), "requeued", state,
                 <<P(Head(evtq), UnmatchedEventInterval)>>, << >>, << >>, TRUE)
     ELSE Finish(Head(evtq), "dropped", state, << >>, << >>, << >>, TRUE)
  /\ UNCHANGED <<now, round, epoch, tip, tipTime, cfg, shutdown, addr, call, roundNum>>

\* The outcomes of a call into a collaborator (chain, DKG, candidate list):
\* success, or an error.  Errors are explored in the runs of a silent network.
Outcomes == IF net.profile = "silent" THEN BOOLEAN ELSE {TRUE}

\* p2p.Broadcast returns an error or nil
Broadcasts == IF net.profile \in {"silent", "happy"} THEN BOOLEAN ELSE {TRUE}

\* a lookup by the event type alone
Dispatch_anyState(src, t) ==
  /\ evtq # << >>
  /\ ~IsStale(Head(evtq), round)
  /\ Head(evtq).t = t

\* the guard shared by the handlers: fsm.Handle finds the edge (src, t)
Dispatch(src, t) ==
  /\ evtq # << >>
  /\ ~IsStale(Head(evtq), round)
  /\ state = src
  /\ Head(evtq).t = t

\* an epoch context that takes the configured number of sub-epochs as it is
handleRollDelegatesEvt_rawSubEpochs ==
  /\ Dispatch(sEpochStart, eRollDelegates)
  /\ \E okEpoch \in Outcomes, okDelegates \in Outcomes :
       LET epochNum == calcEpochNum(tip, cfg.NumDelegates)
           epochHeight == calcEpochHeight(epochNum, cfg.NumDelegates)
           delegates == rollingDelegates(epochNum, cfg.NumDelegates)
           retry == <<P(newCEvt(eRollDelegates, now, roundNum), DelegateInterval)>>
       IN  IF ~okEpoch \/ ~okDelegates
           THEN /\ Finish(Head(evtq), "error", sInvalid, retry, << >>, << >>, TRUE)
                /\ UNCHANGED epoch
           ELSE IF isDelegate(addr, delegates)
           THEN /\ epoch' = [num |-> epochNum, height |-> epochHeight,
                             delegates |-> delegates,
                             numSubEpochs |-> cfg.NumSubEpochs,
                             dkg |-> "none", seed |-> << >>]
                /\ Finish(Head(evtq), "handled", sDKGGeneration,
                          <<P(newCEvt(eGenerateDKG, now, roundNum), 0)>>,
                          << >>, << >>, TRUE)
           ELSE /\ Finish(Head(evtq), "handled", sEpochStart, retry, << >>, << >>, TRUE)
                /\ UNCHANGED epoch
  /\ UNCHANGED <<now, round, tip, tipTime, cfg, shutdown, addr, call, roundNum>>

handleRollDelegatesEvt ==
  /\ Dispatch(sEpochStart, eRollDelegates)
  /\ \E okEpoch \in Outcomes, okDelegates \in Outcomes :
       LET epochNum == calcEpochNum(tip, cfg.NumDelegates)
           epochHeight == calcEpochHeight(epochNum, cfg.NumDelegates)
           delegates == rollingDelegates(epochNum, cfg.NumDelegates)
           retry == <<P(newCEvt(eRollDelegates, now, roundNum), DelegateInterval)>>
       IN  IF ~okEpoch \/ ~okDelegates
           THEN /\ Finish(Head(evtq), "error", sInvalid, retry, << >>, << >>, TRUE)
                /\ UNCHANGED epoch
           ELSE IF isDelegate(addr, delegates)
           THEN /\ epoch' = [num |-> epochNum, height |-> epochHeight,
                             delegates |-> delegates,
                             numSubEpochs |-> IF cfg.NumSubEpochs > 0 THEN cfg.NumSubEpochs ELSE 1,
                             dkg |-> "none", seed |-> << >>]
                /\ Finish(Head(evtq), "handled", sDKGGeneration,
                          <<P(newCEvt(eGenerateDKG, now, roundNum), 0)>>,
                          << >>, << >>, TRUE)
           ELSE /\ Finish(Head(evtq), "handled", sEpochStart, retry, << >>, << >>, TRUE)
                /\ UNCHANGED epoch
  /\ UNCHANGED <<now, round, tip, tipTime, cfg, shutdown, addr, call, roundNum>>

\* cFSM.produceStartRoundEvt: the StartRound to produce and its delay; okDur is
\* the outcome of calcDurationSinceLastBlock, read only without a cached block.
produceStartRoundEvt(rnd, clk, lastBlockTime, rid) ==
  LET duration == IF rnd.block # NilBlock THEN clk - rnd.block.ts
                  ELSE clk - lastBlockTime
  IN  IF duration >= cfg.ProposerInterval
      THEN <<P(newCEvt(eStartRound, clk, rid), 0)>>
      ELSE <<P(newCEvt(eStartRound, clk, rid), cfg.ProposerInterval - duration)>>

handleGenerateDKGEvt ==
  /\ Dispatch(sDKGGeneration, eGenerateDKG)
  /\ \E okDKG \in Outcomes, okDur \in Outcomes :
       IF ~okDKG
       THEN /\ Finish(Head(evtq), "error", sInvalid, << >>, << >>, << >>, TRUE)
            /\ UNCHANGED epoch
       ELSE /\ epoch' = [epoch EXCEPT !.dkg = "dkg"]
            /\ IF round.block = NilBlock /\ ~okDur
               THEN Finish(Head(evtq), "error", sInvalid, << >>, << >>, << >>, TRUE)
               ELSE Finish(Head(evtq), "handled", sRoundStart,
                           produceStartRoundEvt(round, now, tipTime, roundNum),
                           << >>, << >>, TRUE)
  /\ UNCHANGED <<now, round, tip, tipTime, cfg, shutdown, addr, call, roundNum>>

\* a round that inherits the tallies of the one before
handleStartRoundEvt_keepTallies ==
  /\ Dispatch(sRoundStart, eStartRound)
  /\ roundNum < MaxRounds
  /\ \E okProposer \in Outcomes :
       IF ~okProposer
       THEN /\ Finish(Head(evtq), "error", sInvalid, << >>, << >>, << >>, TRUE)
            /\ UNCHANGED <<round, roundNum>>
       ELSE LET height == tip + 1
                proposer == calcProposer(height, epoch)
            IN  /\ round' = [height |-> height, timestamp |-> now,
                             proposer |-> proposer, block |-> NilBlock,
                             proposalEndorses |-> round.proposalEndorses,
                             commitEndorses |-> round.commitEndorses]
                /\ roundNum' = roundNum + 1
                /\ IF proposer = addr
                   THEN Finish(Head(evtq), "handled", sInitPropose,
                               <<P(newCEvt(eInitBlock, now, roundNum + 1), 0)>>,
                               << >>, << >>, TRUE)
                   ELSE Finish(Head(evtq), "handled", sAcceptPropose,
                               <<P(newTimeoutEvt(eProposeBlockTimeout, now, roundNum + 1),
                                   AcceptProposeTTL)>>,
                               << >>, << >>, TRUE)
  /\ UNCHANGED <<now, epoch, tip, tipTime, cfg, shutdown, addr, call>>

handleStartRoundEvt ==
  /\ Dispatch(sRoundStart, eStartRound)
  /\ roundNum < MaxRounds
  /\ \E okProposer \in Outcomes :
       IF ~okProposer
       THEN /\ Finish(Head(evtq), "error", sInvalid, << >>, << >>, << >>, TRUE)
            /\ UNCHANGED <<round, roundNum>>
       ELSE LET height == tip + 1
                proposer == calcProposer(height, epoch)
            IN  /\ round' = [height |-> height, timestamp |-> now,
                             proposer |-> proposer, block |-> NilBlock,
                             proposalEndorses |-> EmptyMap,
                             commitEndorses |-> EmptyMap]
                /\ roundNum' = roundNum + 1
                /\ IF proposer = addr
                   THEN Finish(Head(evtq), "handled", sInitPropose,
                               <<P(newCEvt(eInitBlock, now, roundNum + 1), 0)>>,
                               << >>, << >>, TRUE)
                   ELSE Finish(Head(evtq), "handled", sAcceptPropose,
                               <<P(newTimeoutEvt(eProposeBlockTimeout, now, roundNum + 1),
                                   AcceptProposeTTL)>>,
                               << >>, << >>, TRUE)
  /\ UNCHANGED <<now, epoch, tip, tipTime, cfg, shutdown, addr, call>>

handleInitBlockEvt_bcastError ==
  /\ Dispatch(sInitPropose, eInitBlock)
  /\ \E okMint \in Outcomes, okValid \in Outcomes, bcastOK \in Broadcasts :
       IF ~okMint
       THEN Finish(Head(evtq), "error", sInvalid, << >>, << >>, << >>, TRUE)
       ELSE LET blk == [MintNewBlock(tip, addr, now) EXCEPT !.chainOK = okValid]
            IN  IF bcastOK
                THEN Finish(Head(evtq), "handled", sAcceptPropose,
                            <<P(newProposeBlkEvt(blk, now, roundNum), 0)>>,
                            << >>, <<ProposePb(blk)>>, TRUE)
                ELSE Finish(Head(evtq), "error", sInvalid,
                            <<P(newProposeBlkEvt(blk, now, roundNum), 0)>>,
                            << >>, <<ProposePb(blk)>>, FALSE)
  /\ UNCHANGED <<now, round, epoch, tip, tipTime, cfg, shutdown, addr, call, roundNum>>

\* a proposer that broadcasts its block and does not notify itself
handleInitBlockEvt_broadcastOnly ==
  /\ Dispatch(sInitPropose, eInitBlock)
  /\ \E okMint \in Outcomes, okValid \in Outcomes, bcastOK \in Broadcasts :
       IF ~okMint
       THEN Finish(Head(evtq), "error", sInvalid, << >>, << >>, << >>, TRUE)
       ELSE LET blk == [MintNewBlock(tip, addr, now) EXCEPT !.chainOK = okValid]
            IN  Finish(Head(evtq), "handled", sAcceptPropose,
                       << >>, << >>, <<ProposePb(blk)>>, bcastOK)
  /\ UNCHANGED <<now, round, epoch, tip, tipTime, cfg, shutdown, addr, call, roundNum>>

handleInitBlockEvt ==
  /\ Dispatch(sInitPropose, eInitBlock)
  /\ \E okMint \in Outcomes, okValid \in Outcomes, bcastOK \in Broadcasts :
       IF ~okMint
       THEN Finish(Head(evtq), "error", sInvalid, << >>, << >>, << >>, TRUE)
       ELSE LET blk == [MintNewBlock(tip, addr, now) EXCEPT !.chainOK = okValid]
            IN  Finish(Head(evtq), "handled", sAcceptPropose,
                       <<P(newProposeBlkEvt(blk, now, roundNum), 0)>>,
                       << >>, <<ProposePb(blk)>>, bcastOK)
  /\ UNCHANGED <<now, round, epoch, tip, tipTime, cfg, shutdown, addr, call, roundNum>>

\* cFSM.moveToAcceptProposalEndorse / moveToAcceptCommitEndorse: the timeout
\* each of them schedules
moveToAcceptProposalEndorse(clk, rid) ==
  P(newTimeoutEvt(eEndorseProposalTimeout, clk, rid), AcceptProposalEndorseTTL)

moveToAcceptCommitEndorse_proposalTimeout(clk, rid) ==
  P(newTimeoutEvt(eEndorseProposalTimeout, clk, rid), AcceptCommitEndorseTTL)

moveToAcceptCommitEndorse(clk, rid) ==
  P(newTimeoutEvt(eEndorseCommitTimeout, clk, rid), AcceptCommitEndorseTTL)

handleProposeBlockEvt ==
  /\ Dispatch(sAcceptPropose, eProposeBlock)
  /\ \E okProposer \in Outcomes, bcastOK \in Broadcasts :
       LET evt == Head(evtq)
           blk == evt.block
       IN  IF evt.kind # "proposeBlkEvt" \/ ~okProposer
           THEN /\ round' = [round EXCEPT !.block = NilBlock]
                /\ Finish(evt, "error", sInvalid, << >>, << >>, << >>, TRUE)
           ELSE IF ~validateProposeBlock(blk, calcProposer(blk.height, epoch), round, addr)
           THEN /\ round' = [round EXCEPT !.block = NilBlock]
                /\ Finish(evt, "handled", sAcceptPropose, << >>, << >>, << >>, TRUE)
           ELSE LET endorseEvt ==
                      newEndorseEvt(endorseProposal, HashBlock(blk), TRUE,
                                    round.height, addr, now, roundNum)
                IN  /\ round' = [round EXCEPT !.block = blk]
                    /\ Finish(evt, "handled", sAcceptProposalEndorse,
                              <<P(endorseEvt, 0), moveToAcceptProposalEndorse(now, roundNum)>>,
                              << >>, <<EndorsePb(endorseEvt.endorse)>>, bcastOK)
  /\ UNCHANGED <<now, epoch, tip, tipTime, cfg, shutdown, addr, call, roundNum>>

handleProposeBlockTimeout ==
  /\ Dispatch(sAcceptPropose, eProposeBlockTimeout)
  /\ Finish(Head(evtq), "handled", sAcceptProposalEndorse,
            <<moveToAcceptProposalEndorse(now, roundNum)>>, << >>, << >>, TRUE)
  /\ UNCHANGED <<now, round, epoch, tip, tipTime, cfg, shutdown, addr, call, roundNum>>

\* an own commit endorsement that is in favour whatever the quorum was
handleEndorseProposalEvt_commitYes ==
  /\ Dispatch(sAcceptProposalEndorse, eEndorseProposal)
  /\ \E bcastOK \in Broadcasts :
       LET evt == Head(evtq)
           en == evt.endorse
       IN  IF evt.kind # "endorseEvt"
           THEN /\ Finish(evt, "error", sInvalid, << >>, << >>, << >>, TRUE)
                /\ UNCHANGED round
           ELSE IF ~validateEndorse(en, endorseProposal, round)
           THEN /\ Finish(evt, "handled", sAcceptProposalEndorse, << >>, << >>, << >>, TRUE)
                /\ UNCHANGED round
           ELSE LET tally == TallyPut(round.proposalEndorses, en.blkHash,
                                      en.endorser, en.decision)
                    q == calcQuorum(tally[en.blkHash], Len(epoch.delegates))
                    cEvt == newEndorseEvt(endorseCommit, en.blkHash, TRUE,
                                          round.height, addr, now, roundNum)
                IN  /\ round' = [round EXCEPT !.proposalEndorses = tally]
                    /\ IF noQuorum(q)
                       THEN Finish(evt, "handled", sAcceptProposalEndorse,
                                   << >>, << >>, << >>, TRUE)
                       ELSE Finish(evt, "handled", sAcceptCommitEndorse,
                                   <<P(cEvt, 0), moveToAcceptCommitEndorse(now, roundNum)>>,
                                   << >>, <<EndorsePb(cEvt.endorse)>>, bcastOK)
  /\ UNCHANGED <<now, epoch, tip, tipTime, cfg, shutdown, addr, call, roundNum>>

handleEndorseProposalEvt ==
  /\ Dispatch(sAcceptProposalEndorse, eEndorseProposal)
  /\ \E bcastOK \in Broadcasts :
       LET evt == Head(evtq)
           en == evt.endorse
       IN  IF evt.kind # "endorseEvt"
           THEN /\ Finish(evt, "error", sInvalid, << >>, << >>, << >>, TRUE)
                /\ UNCHANGED round
           ELSE IF ~validateEndorse(en, endorseProposal, round)
           THEN /\ Finish(evt, "handled", sAcceptProposalEndorse, << >>, << >>, << >>, TRUE)
                /\ UNCHANGED round
           ELSE LET tally == TallyPut(round.proposalEndorses, en.blkHash,
                                      en.endorser, en.decision)
                    q == calcQuorum(tally[en.blkHash], Len(epoch.delegates))
                    cEvt == newEndorseEvt(endorseCommit, en.blkHash, q.yes /\ ~q.no,
                                          round.height, addr, now, roundNum)
                IN  /\ round' = [round EXCEPT !.proposalEndorses = tally]
                    /\ IF noQuorum(q)
                       THEN Finish(evt, "handled", sAcceptProposalEndorse,
                                   << >>, << >>, << >>, TRUE)
                       ELSE Finish(evt, "handled", sAcceptCommitEndorse,
                                   <<P(cEvt, 0), moveToAcceptCommitEndorse(now, roundNum)>>,
                                   << >>, <<EndorsePb(cEvt.endorse)>>, bcastOK)
  /\ UNCHANGED <<now, epoch, tip, tipTime, cfg, shutdown, addr, call, roundNum>>

handleEndorseProposalTimeout ==
  /\ Dispatch(sAcceptProposalEndorse, eEndorseProposalTimeout)
  /\ Finish(Head(evtq), "handled", sAcceptCommitEndorse,
            <<moveToAcceptCommitEndorse(now, roundNum)>>, << >>, << >>, TRUE)
  /\ UNCHANGED <<now, round, epoch, tip, tipTime, cfg, shutdown, addr, call, roundNum>>

\* cFSM.processEndorseCommit: the block it commits (NilBlock: none)
pendingBlock_nodummy(consensus, rnd, tipHeight, enableDummyBlock, clk) ==
  IF consensus THEN rnd.block ELSE NilBlock

pendingBlock(consensus, rnd, tipHeight, enableDummyBlock, clk) ==
  IF consensus THEN rnd.block
  ELSE IF enableDummyBlock THEN MintNewDummyBlock(tipHeight, clk)
  ELSE NilBlock

\* cFSM.processEndorseCommit: commit, reset the action pool, broadcast, produce
\* FinishEpoch and go to RoundStart; a failed CommitBlock is only logged.
processEndorseCommit_failOnCommit(consensus) ==
  \E okCommit \in Outcomes, bcastOK \in Broadcasts :
    LET blk == pendingBlock(consensus, round, tip, cfg.EnableDummyBlock, now)
        finish == <<P(newCEvt(eFinishEpoch, now, roundNum), 0)>>
    IN  IF blk # NilBlock
        THEN IF okCommit
             THEN /\ tip' = blk.height /\ tipTime' = blk.ts
                  /\ Finish(Head(evtq), "handled", sRoundStart, finish,
                            <<[blk |-> blk, ok |-> TRUE]>>, <<BlockPb(blk)>>, bcastOK)
             ELSE /\ UNCHANGED <<tip, tipTime>>
                  /\ Finish(Head(evtq), "error", sInvalid, << >>,
                            <<[blk |-> blk, ok |-> FALSE]>>, << >>, TRUE)
        ELSE /\ UNCHANGED <<tip, tipTime>>
             /\ Finish(Head(evtq), "handled", sRoundStart, finish,
                       << >>, << >>, TRUE)

processEndorseCommit_stay(consensus) ==
  \E okCommit \in Outcomes, bcastOK \in Broadcasts :
    LET blk == pendingBlock(consensus, round, tip, cfg.EnableDummyBlock, now)
        finish == <<P(newCEvt(eFinishEpoch, now, roundNum), 0)>>
    IN  IF blk # NilBlock
        THEN /\ IF okCommit
                THEN tip' = blk.height /\ tipTime' = blk.ts
                ELSE UNCHANGED <<tip, tipTime>>
             /\ Finish(Head(evtq), "handled", sAcceptCommitEndorse, finish,
                       <<[blk |-> blk, ok |-> okCommit]>>, <<BlockPb(blk)>>, bcastOK)
        ELSE /\ UNCHANGED <<tip, tipTime>>
             /\ Finish(Head(evtq), "handled", sAcceptCommitEndorse, finish,
                       << >>, << >>, TRUE)

processEndorseCommit(consensus) ==
  \E okCommit \in Outcomes, bcastOK \in Broadcasts :
    LET blk == pendingBlock(consensus, round, tip, cfg.EnableDummyBlock, now)
        finish == <<P(newCEvt(eFinishEpoch, now, roundNum), 0)>>
    IN  IF blk # NilBlock
        THEN /\ IF okCommit
                THEN tip' = blk.height /\ tipTime' = blk.ts
                ELSE UNCHANGED <<tip, tipTime>>
             /\ Finish(Head(evtq), "handled", sRoundStart, finish,
                       <<[blk |-> blk, ok |-> okCommit]>>, <<BlockPb(blk)>>, bcastOK)
        ELSE /\ UNCHANGED <<tip, tipTime>>
             /\ Finish(Head(evtq), "handled", sRoundStart, finish,
                       << >>, << >>, TRUE)

handleEndorseCommitEvt ==
  /\ Dispatch(sAcceptCommitEndorse, eEndorseCommit)
  /\ LET evt == Head(evtq)
         en == evt.endorse
     IN  IF evt.kind # "endorseEvt"
         THEN /\ Finish(evt, "error", sInvalid, << >>, << >>, << >>, TRUE)
              /\ UNCHANGED <<round, tip, tipTime>>
         ELSE IF en.topic # endorseCommit
         THEN /\ Finish(evt, "handled", sAcceptCommitEndorse, << >>, << >>, << >>, TRUE)
              /\ UNCHANGED <<round, tip, tipTime>>
         ELSE LET tally == TallyPut(round.commitEndorses, en.blkHash,
                                    en.endorser, en.decision)
                  q == calcQuorum(tally[en.blkHash], Len(epoch.delegates))
              IN  /\ round' = [round EXCEPT !.commitEndorses = tally]
                  /\ IF noQuorum(q)
                     THEN /\ Finish(evt, "handled", sAcceptCommitEndorse,
                                    << >>, << >>, << >>, TRUE)
                          /\ UNCHANGED <<tip, tipTime>>
                     ELSE processEndorseCommit(q.yes /\ ~q.no)
  /\ UNCHANGED <<now, epoch, cfg, shutdown, addr, call, roundNum>>

handleEndorseCommitTimeout_clearRound ==
  /\ Dispatch(sAcceptCommitEndorse, eEndorseCommitTimeout)
  /\ processEndorseCommit(FALSE)
  /\ round' = [round EXCEPT !.block = NilBlock, !.proposalEndorses = EmptyMap,
                            !.commitEndorses = EmptyMap]
  /\ UNCHANGED <<now, epoch, cfg, shutdown, addr, call, roundNum>>

handleEndorseCommitTimeout ==
  /\ Dispatch(sAcceptCommitEndorse, eEndorseCommitTimeout)
  /\ processEndorseCommit(FALSE)
  /\ UNCHANGED <<now, round, epoch, cfg, shutdown, addr, call, roundNum>>

\* a finished epoch that also starts a round
handleFinishEpochEvt_bothEvents ==
  /\ Dispatch(sRoundStart, eFinishEpoch)
  /\ \E okFinished \in Outcomes, okDur \in Outcomes :
       IF ~okFinished
       THEN Finish(Head(evtq), "error", sInvalid, << >>, << >>, << >>, TRUE)
       ELSE IF isEpochFinished(tip, epoch)
       THEN Finish(Head(evtq), "handled", sEpochStart,
                   <<P(newCEvt(eRollDelegates, now, roundNum), 0)>>
                     \o produceStartRoundEvt(round, now, tipTime, roundNum),
                   << >>, << >>, TRUE)
       ELSE IF round.block = NilBlock /\ ~okDur
       THEN Finish(Head(evtq), "error", sInvalid, << >>, << >>, << >>, TRUE)
       ELSE Finish(Head(evtq), "handled", sRoundStart,
                   produceStartRoundEvt(round, now, tipTime, roundNum),
                   << >>, << >>, TRUE)
  /\ UNCHANGED <<now, round, epoch, tip, tipTime, cfg, shutdown, addr, call, roundNum>>

handleFinishEpochEvt ==
  /\ Dispatch(sRoundStart, eFinishEpoch)
  /\ \E okFinished \in Outcomes, okDur \in Outcomes :
       IF ~okFinished
       THEN Finish(Head(evtq), "error", sInvalid, << >>, << >>, << >>, TRUE)
       ELSE IF isEpochFinished(tip, epoch)
       THEN Finish(Head(evtq), "handled", sEpochStart,
                   <<P(newCEvt(eRollDelegates, now, roundNum), 0)>>, << >>, << >>, TRUE)
       ELSE IF round.block = NilBlock /\ ~okDur
       THEN Finish(Head(evtq), "error", sInvalid, << >>, << >>, << >>, TRUE)
       ELSE Finish(Head(evtq), "handled", sRoundStart,
                   produceStartRoundEvt(round, now, tipTime, roundNum),
                   << >>, << >>, TRUE)
  /\ UNCHANGED <<now, round, epoch, tip, tipTime, cfg, shutdown, addr, call, roundNum>>

\* ------------------------------------------------------------------------
\* The environment: the clock, the sleeping producers, the network
\* ------------------------------------------------------------------------
Tick ==
  /\ now < MaxTime
  /\ evtq = << >>
  /\ \A d \in BagToSet(delayed) : d.due > now
  /\ sending = EmptyBag
  /\ closed => delayed = EmptyBag
  /\ now' = now + 1
  /\ last' = NoLast
  /\ UNCHANGED <<blocked, committed>>
  /\ UNCHANGED <<state, evtq, delayed, round, epoch, tip, tipTime, cfg, shutdown, addr, call,
                 roundNum, apeAt, net, sending, lateSend>>

\* evtq is make(chan iConsensusEvt, cfg.EventChanSize): a send goes through
\* while fewer than EventChanSize events are waiting, and blocks otherwise
HasRoom_always(q) == TRUE

HasRoom(q) == Len(q) < EventChanSize

\* produce, delay > 0: the select takes case <-clock.After(delay), which is
\* ready once the delay has passed, whether or not close is closed too, and
\* the send m.evtq <- evt goes through
DelayedFire ==
  /\ \E d \in BagToSet(delayed) :
       /\ d.due <= now
       /\ HasRoom(evtq)
       /\ evtq' = Append(evtq, d.evt)
       /\ delayed' = delayed (-) SetToBag({d})
  /\ lateSend' = (lateSend \/ closed)
  /\ last' = NoLast
  /\ UNCHANGED <<blocked, committed>>
  /\ UNCHANGED <<state, now, round, epoch, tip, tipTime, cfg, shutdown, addr, call, roundNum,
                 apeAt, net, sending>>

\* produce, delay > 0: the select has taken case <-clock.After(delay) and the
\* send m.evtq <- evt is blocked on the full channel.  Until close is closed a
\* goroutine there and one still at the select behave alike (both add the event
\* as soon as there is room), and both are kept in delayed; after the close
\* only the one at the select can leave without sending.
DelayedBlock ==
  /\ closed
  /\ \E d \in BagToSet(delayed) :
       /\ d.due <= now
       /\ ~HasRoom(evtq)
       /\ delayed' = delayed (-) SetToBag({d})
       /\ sending' = sending (+) SetToBag({d.evt})
  /\ last' = NoLast
  /\ UNCHANGED <<blocked, committed>>
  /\ UNCHANGED <<state, now, evtq, round, epoch, tip, tipTime, cfg, shutdown, addr, call,
                 roundNum, apeAt, net, lateSend>>

\* produce, delay > 0: a blocked send m.evtq <- evt goes through, wg.Done()
DelayedSend ==
  /\ \E e \in BagToSet(sending) :
       /\ HasRoom(evtq)
       /\ evtq' = Append(evtq, e)
       /\ sending' = sending (-) SetToBag({e})
  /\ lateSend' = (lateSend \/ closed)
  /\ last' = NoLast
  /\ UNCHANGED <<blocked, committed>>
  /\ UNCHANGED <<state, now, delayed, round, epoch, tip, tipTime, cfg, shutdown, addr, call,
                 roundNum, apeAt, net>>

\* cFSM.Stop: close(m.close)
Stop ==
  /\ ~closed
  /\ closed' = TRUE
  /\ last' = NoLast
  /\ UNCHANGED <<blocked, committed>>
  /\ UNCHANGED <<state, now, evtq, delayed, round, epoch, tip, tipTime, cfg, addr, call,
                 roundNum, apeAt, net, running, sending, stopped, lateSend>>

\* cFSM.Start: the select of the worker takes case <-m.close, wg.Done()
WorkerExit ==
  /\ closed
  /\ running
  /\ blocked = << >>
  /\ running' = FALSE
  /\ last' = NoLast
  /\ UNCHANGED <<blocked, committed>>
  /\ UNCHANGED <<state, now, evtq, delayed, round, epoch, tip, tipTime, cfg, addr, call,
                 roundNum, apeAt, net, closed, sending, stopped, lateSend>>

\* produce, delay > 0: the select takes case <-m.close, wg.Done()
ProducerExit ==
  /\ closed
  /\ \E d \in BagToSet(delayed) : delayed' = delayed (-) SetToBag({d})
  /\ last' = NoLast
  /\ UNCHANGED <<blocked, committed>>
  /\ UNCHANGED <<state, now, evtq, round, epoch, tip, tipTime, cfg, addr, call, roundNum,
                 apeAt, net, shutdown, sending, lateSend>>

\* cFSM.Stop: m.wg.Wait() returns when the worker and every goroutine of
\* produce have called wg.Done()
StopReturn ==
  /\ closed
  /\ ~stopped
  /\ ~running
  /\ delayed = EmptyBag
  /\ sending = EmptyBag
  /\ stopped' = TRUE
  /\ last' = NoLast
  /\ UNCHANGED <<blocked, committed>>
  /\ UNCHANGED <<state, now, evtq, delayed, round, epoch, tip, tipTime, cfg, addr, call,
                 roundNum, apeAt, net, closed, running, sending, lateSend>>

\* the blocks other nodes may propose for the next height: the expected
\* proposer's block and its malformed variants
RemoteBlocks ==
  LET h == tip + 1
      base == [height |-> h, producer |-> calcProposer(h, epoch), sigOK |-> TRUE,
               chainOK |-> TRUE, dkg |-> "good", payload |-> 1, dummy |-> FALSE,
               ts |-> now]
      all == {base, [base EXCEPT !.producer = calcProposer(h + 1, epoch)]}
  IN  {b \in all : b.producer # addr \/ ~b.sigOK}

\* The remote endorsers in the order in which they are first heard.  The code
\* never looks at who an endorser is (validateEndorse has no membership test),
\* so every other order is this one up to renaming.
RemoteEndorsers ==
  IF addr = "A" THEN <<"B", "C", "D">>
  ELSE IF addr = "B" THEN <<"A", "C", "D">>
  ELSE <<"A", "B", "C">>

\* What the other nodes send in one run.  "uniform": every endorser sends the
\* same vote (topic, decision, and possibly another height or another hash);
\* "happy": proposal endorsements until the local vote completes the quorum,
\* then commit endorsements; "flip": the first endorser votes, then changes
\* its mind, then the others vote; "blocks": block proposals only, well formed
\* or not; "silent": nothing.  Block proposals are
\* sent in the runs whose endorsements are for the expected height and hash.
NetProfiles ==
  {[profile |-> "uniform", tp |-> tp, d |-> d, odd |-> "", sent |-> 0, blocks |-> 0] :
     tp \in BOOLEAN, d \in BOOLEAN}
  \cup
  {[profile |-> "uniform", tp |-> tp, d |-> TRUE, odd |-> odd, sent |-> 0, blocks |-> 0] :
     tp \in BOOLEAN, odd \in {"height", "hash"}}
  \cup
  {[profile |-> pr, tp |-> tp, d |-> TRUE, odd |-> "", sent |-> 0, blocks |-> 0] :
     pr \in {"flip"}, tp \in BOOLEAN}
  \cup
  {[profile |-> pr, tp |-> FALSE, d |-> TRUE, odd |-> "", sent |-> 0, blocks |-> 0] :
     pr \in {"happy", "blocks", "silent"}}

\* the i-th endorsement of the run: who sends it and what it says; the
\* endorsement built from the wire record holds no signature that verifies
\* (fromProtoMsg copies it into the nil slice of a zero endorse)
NetEndorse(nt, i, numDelegates) ==
  LET remoteNeed == CeilDiv(2 * numDelegates, 3)
      who == IF nt.profile = "happy" THEN (IF i <= remoteNeed THEN i ELSE i - remoteNeed)
             ELSE IF nt.profile = "flip" THEN (IF i = 1 THEN 1 ELSE i - 1)
             ELSE i
      tp == IF nt.profile = "happy" THEN i > remoteNeed ELSE nt.tp
      d == IF nt.profile = "flip" THEN i # 2 ELSE nt.d
      h == tip + 1
  IN  [who |-> who,
       en |-> [topic |-> tp,
               height |-> IF nt.odd = "height" THEN h + 1 ELSE h,
               blkHash |-> <<h, calcProposer(h, epoch), IF nt.odd = "hash" THEN 2 ELSE 1>>,
               decision |-> d,
               endorser |-> RemoteEndorsers[IF who <= Len(RemoteEndorsers) THEN who ELSE 1],
               sigOK |-> FALSE]]

\* RollDPoS.Handle (ProposePb): cfsm.produce(newProposeBlkEvtFromProposePb, 0)
\* every way in which a block received from the network can fail one of the
\* tests of validateProposeBlock, and the blocks that pass them
MalformedBlocks ==
  LET h == tip + 1
      base == [height |-> h, producer |-> calcProposer(h, epoch), sigOK |-> TRUE,
               chainOK |-> TRUE, dkg |-> "good", payload |-> 1, dummy |-> FALSE,
               ts |-> now]
      all == {base,
              [base EXCEPT !.dkg = "none"],
              [base EXCEPT !.height = h + 1, !.producer = calcProposer(h + 1, epoch)],
              [base EXCEPT !.producer = calcProposer(h + 1, epoch)],
              [base EXCEPT !.producer = ""],
              [base EXCEPT !.sigOK = FALSE],
              [base EXCEPT !.chainOK = FALSE],
              [base EXCEPT !.chainOK = FALSE, !.dkg = "none"],
              [base EXCEPT !.dkg = "bad"]}
  IN  {b \in all : b.producer # addr \/ ~b.sigOK}

InjectPropose ==
  /\ net.profile \in {"uniform", "happy", "blocks"}
  /\ net.odd = ""
  /\ net.blocks < MaxPropose
  /\ state \in {sRoundStart, sAcceptPropose}
  /\ evtq = << >>
  /\ \E blk \in IF net.profile = "blocks" THEN MalformedBlocks ELSE RemoteBlocks :
       evtq' = Append(evtq, newProposeBlkEvt(blk, now, roundNum))
  /\ net' = [net EXCEPT !.blocks = @ + 1]
  /\ last' = NoLast
  /\ UNCHANGED <<blocked, committed>>
  /\ UNCHANGED <<state, now, delayed, round, epoch, tip, tipTime, cfg, shutdown, addr, call, roundNum,
                 apeAt, sending, lateSend>>

\* RollDPoS.Handle (EndorsePb): cfsm.produce(newEndorseEvtWithEndorsePb, 0)
InjectEndorse ==
  /\ net.profile \notin {"blocks", "silent"}
  /\ net.sent < MaxInject
  /\ epoch.num > 0
  /\ evtq = << >>
  /\ LET m == NetEndorse(net, net.sent + 1, Len(epoch.delegates))
     IN  /\ m.who <= Len(RemoteEndorsers)
         /\ evtq' = Append(evtq, newEndorseEvtWithEndorse(m.en, now, roundNum))
  /\ net' = [net EXCEPT !.sent = @ + 1]
  /\ last' = NoLast
  /\ UNCHANGED <<blocked, committed>>
  /\ UNCHANGED <<state, now, delayed, round, epoch, tip, tipTime, cfg, shutdown, addr, call, roundNum,
                 apeAt, sending, lateSend>>

\* ------------------------------------------------------------------------
\* Specification
\* ------------------------------------------------------------------------
\* After newConsensusFSM and RollDPoS.Start: the FSM is in EpochStart and the
\* first RollDelegates has been produced.
StartOn(cfgs, tipHeight, nets) ==
  /\ state = sEpochStart
  /\ now = 1
  /\ evtq = <<newCEvt(eRollDelegates, 1, 0)>>
  /\ delayed = EmptyBag
  /\ round = ZeroRound
  /\ epoch = ZeroEpoch
  /\ tip = tipHeight
  /\ tipTime = 0
  /\ cfg \in cfgs
  /\ addr \in {"A", "B", "D"}
  /\ roundNum = 0
  /\ apeAt = 0
  /\ net \in nets
  /\ last = NoLast
  /\ closed = FALSE
  /\ running = TRUE
  /\ sending = EmptyBag
  /\ stopped = FALSE
  /\ lateSend = FALSE
  /\ blocked = << >>
  /\ committed = 0
  /\ call = NoCall

\* a node started on a chain of some height
StartAt(cfgs, tipHeight) == StartOn(cfgs, tipHeight, NetProfiles)

\* a node started on the genesis block
StartWith(cfgs) == StartAt(cfgs, 0)

Start(numDelegates) ==
  StartWith([EnableDummyBlock : BOOLEAN, NumDelegates : {numDelegates},
             ProposerInterval : {ProposerInterval}, NumSubEpochs : {NumSubEpochs}])

\* a committee of three of the four candidates: D is not a delegate
Init == Start(3)

\* a committee of all four candidates
Init4 == Start(4)

Next ==
  \/ Tick
  \/ DelayedFire
  \/ InjectPropose
  \/ InjectEndorse
  \/ DropStale
  \/ Unmatched
  \/ handleRollDelegatesEvt
  \/ handleGenerateDKGEvt
  \/ handleStartRoundEvt
  \/ handleInitBlockEvt
  \/ handleProposeBlockEvt
  \/ handleProposeBlockTimeout
  \/ handleEndorseProposalEvt
  \/ handleEndorseProposalTimeout
  \/ handleEndorseCommitEvt
  \/ handleEndorseCommitTimeout
  \/ handleFinishEpochEvt

Spec == Init /\ [][Next]_vars

Spec4 == Init4 /\ [][Next]_vars

\* the node without dummy blocks, with the proposer interval of one tick or
\* longer than a round
InitPace ==
  StartWith([EnableDummyBlock : {FALSE}, NumDelegates : {3},
             ProposerInterval : {ProposerInterval, SlowProposerInterval},
             NumSubEpochs : {NumSubEpochs}])

SpecPace == InitPace /\ [][Next]_vars

\* a node started on a chain one block short of the end of the first epoch
InitEpoch ==
  StartAt([EnableDummyBlock : BOOLEAN, NumDelegates : {3},
           ProposerInterval : {ProposerInterval}, NumSubEpochs : {NumSubEpochs}],
          3 * NumSubEpochs - 1)

SpecEpoch == InitEpoch /\ [][Next]_vars

\* a node configured without a number of sub-epochs, or with two
InitSub ==
  StartWith([EnableDummyBlock : {TRUE}, NumDelegates : {3},
             ProposerInterval : {ProposerInterval}, NumSubEpochs : {0, 2}])

SpecSub == InitSub /\ [][Next]_vars

\* a network that keeps the channel full, and one that behaves
InitFull ==
  StartOn([EnableDummyBlock : {TRUE}, NumDelegates : {3},
           ProposerInterval : {ProposerInterval}, NumSubEpochs : {NumSubEpochs}],
          0,
          {[profile |-> pr, tp |-> FALSE, d |-> TRUE, odd |-> "", sent |-> 0,
            blocks |-> 0] : pr \in {"flood", "happy"}})

SpecFull == InitFull /\ [][Next]_vars

\* the node with Stop called at any moment
NextStop ==
  \/ Next
  \/ Stop
  \/ WorkerExit
  \/ ProducerExit
  \/ DelayedBlock
  \/ DelayedSend
  \/ StopReturn

\* the runs in which every other delegate sends a commit endorsement in
\* favour of the block
InitStop ==
  /\ Init
  /\ net.profile = "uniform"
  /\ net.odd = ""
  /\ net.tp
  /\ net.d

SpecStop == InitStop /\ [][NextStop]_vars

\* ------------------------------------------------------------------------
\* Functions of the package called on their own
\* ------------------------------------------------------------------------
\* the node as newConsensusFSM leaves it, before Start
Idle ==
  /\ state = sEpochStart
  /\ now = 1
  /\ evtq = << >>
  /\ delayed = EmptyBag
  /\ round = ZeroRound
  /\ epoch = ZeroEpoch
  /\ tip = 0
  /\ tipTime = 0
  /\ cfg = [EnableDummyBlock |-> FALSE, NumDelegates |-> 3,
            ProposerInterval |-> ProposerInterval, NumSubEpochs |-> NumSubEpochs]
  /\ addr = "A"
  /\ roundNum = 0
  /\ apeAt = 0
  /\ net = [profile |-> "silent", tp |-> FALSE, d |-> TRUE, odd |-> "",
            sent |-> 0, blocks |-> 0]
  /\ last = NoLast
  /\ closed = FALSE
  /\ running = FALSE
  /\ sending = EmptyBag
  /\ stopped = FALSE
  /\ lateSend = FALSE
  /\ blocked = << >>
  /\ committed = 0

fsmVars ==
  <<state, now, evtq, delayed, round, epoch, tip, tipTime, cfg, addr, roundNum,
    apeAt, net, last, closed, running, sending, stopped, lateSend, blocked, committed>>

\* the largest height of an endorsement given to the codec
MaxEndorseHeight == 2

\* keypair, iotxaddress: the public key of an address, and the hash by which
\* the two are matched
PubkeyOf(a) == <<"pubkey", a>>

HashPubKey(pk) == pk[2]

GetPubkeyHash(a) == a

\* keypair.BytesToPublicKey: the key, or an error when the bytes are no key
BytesToPublicKey(bytes) ==
  IF Len(bytes) = 2 /\ bytes[1] = "pubkey"
  THEN [err |-> FALSE, key |-> bytes]
  ELSE [err |-> TRUE, key |-> PubkeyOf("")]

\* crypto.EC283: a signature is the pair of the signing key's owner and the
\* digest signed; nothing else verifies
ECSign(owner, digest) == <<owner, digest>>

ECVerify(pk, digest, sig) == sig = <<pk[2], digest>>

\* the builtin copy(dst, src): min(len(dst), len(src)) elements are copied and
\* dst keeps its length
Copy(dst, src) ==
  [i \in 1..Len(dst) |-> IF i <= Len(src) THEN src[i] ELSE dst[i]]

\* the zero value of endorse (var en endorse): signature is a nil slice
ZeroEndorse ==
  [topic |-> FALSE, height |-> 0, blkHash |-> <<0, "", 0>>, decision |-> FALSE,
   endorser |-> "", endorserPubkey |-> PubkeyOf(""), signature |-> << >>]

\* endorse.Hash over endorse.ByteStream: height, topic, block hash, decision
Hash(en) == <<en.height, en.topic, en.blkHash, en.decision>>

\* endorse.Sign
Sign(en, endorser) ==
  [en EXCEPT !.endorser = endorser, !.endorserPubkey = PubkeyOf(endorser),
             !.signature = ECSign(endorser, Hash(en))]

\* endorse.VerifySignature
VerifySignature(en, pubkey) ==
  /\ HashPubKey(pubkey) = GetPubkeyHash(en.endorser)
  /\ ECVerify(pubkey, Hash(en), en.signature)

\* endorse.toProtoMsg
toProtoMsg(en) ==
  [Height |-> en.height,
   BlockHash |-> en.blkHash,
   Topic |-> IF en.topic = endorseProposal THEN "PROPOSAL" ELSE "COMMIT",
   Endorser |-> en.endorser,
   EndorserPubKey |-> en.endorserPubkey,
   Decision |-> en.decision,
   Signature |-> en.signature]

\* endorse.fromProtoMsg on the receiver en: the error, and the receiver as the
\* call leaves it
fromProtoMsg(en, endorsePb) ==
  LET pubKey == BytesToPublicKey(endorsePb.EndorserPubKey)
      en1 == [en EXCEPT !.blkHash = Copy(en.blkHash, endorsePb.BlockHash),
                        !.topic = IF endorsePb.Topic = "PROPOSAL" THEN endorseProposal
                                  ELSE IF endorsePb.Topic = "COMMIT" THEN endorseCommit
                                  ELSE en.topic]
  IN  IF pubKey.err
      THEN [err |-> TRUE, en |-> en1]
      ELSE [err |-> FALSE,
            en |-> [en1 EXCEPT !.endorserPubkey = pubKey.key,
                               !.height = endorsePb.Height,
                               !.endorser = endorsePb.Endorser,
                               !.decision = endorsePb.Decision,
                               !.signature = Copy(en1.signature, endorsePb.Signature)]]

\* cFSM.newEndorseEvtWithEndorsePb: var en endorse; en.fromProtoMsg(ePb)
newEndorseEvtWithEndorsePb(ePb) == fromProtoMsg(ZeroEndorse, ePb)

\* the endorsements a delegate signs (newEndorseEvt)
SignedEndorsements ==
  {Sign([ZeroEndorse EXCEPT !.topic = tp, !.height = h, !.blkHash = <<h, p, 1>>,
                            !.decision = d], a) :
     tp \in BOOLEAN, h \in 0..MaxEndorseHeight, d \in BOOLEAN,
     p \in {"A", "B"}, a \in {Candidates[i] : i \in 1..Len(Candidates)}}

\* an endorsement is signed, ...
InitEndorse ==
  /\ Idle
  /\ \E en \in SignedEndorsements :
       call = [op |-> "signed", arg |-> en,
               res |-> [pb |-> toProtoMsg(ZeroEndorse), err |-> FALSE,
                        en |-> ZeroEndorse]]

\* ... put on the wire by the sender (handlers: Broadcast(en.toProtoMsg()))
Serialize ==
  /\ call.op = "signed"
  /\ call' = [call EXCEPT !.op = "sent", !.res.pb = toProtoMsg(call.arg)]
  /\ UNCHANGED fsmVars

\* ... and taken off the wire by the receiver (RollDPoS.Handle)
Deserialize ==
  /\ call.op = "sent"
  /\ LET r == newEndorseEvtWithEndorsePb(call.res.pb)
     IN  call' = [call EXCEPT !.op = "received", !.res.err = r.err, !.res.en = r.en]
  /\ UNCHANGED fsmVars

NextEndorse ==
  \/ Serialize
  \/ Deserialize

SpecEndorse == InitEndorse /\ [][NextEndorse]_vars

\* config: the consensus schemes and the largest size or number configured
RollDPoSScheme == "ROLLDPOS"

Schemes == {RollDPoSScheme, "NOOP", "STANDALONE"}

MaxCfgNum == 2

\* config.ValidateRollDPoS: the message of the error, "" when it returns nil
ValidateRollDPoS(c) ==
  IF c.Scheme = RollDPoSScheme /\ c.EventChanSize <= 0
  THEN "roll-DPoS event chan size should be greater than 0"
  ELSE IF c.Scheme = RollDPoSScheme /\ c.NumDelegates <= 0
  THEN "roll-DPoS event delegate number should be greater than 0"
  ELSE IF /\ c.Scheme = RollDPoSScheme
          /\ c.EnableDummyBlock
          /\ c.TimeBasedRotation
  THEN "roll-DPoS should enable dummy block when doing time based rotation"
  ELSE ""

\* a configuration is loaded, ...
InitValidate ==
  /\ Idle
  /\ \E c \in [Scheme : Schemes, EventChanSize : -1..MaxCfgNum,
                NumDelegates : -1..MaxCfgNum, EnableDummyBlock : BOOLEAN,
                TimeBasedRotation : BOOLEAN] :
       call = [op |-> "loaded", arg |-> c, res |-> ""]

\* ... and validated (config.New runs every function of Validates)
Validate ==
  /\ call.op = "loaded"
  /\ call' = [call EXCEPT !.op = "validated", !.res = ValidateRollDPoS(call.arg)]
  /\ UNCHANGED fsmVars

NextValidate == Validate

SpecValidate == InitValidate /\ [][NextValidate]_vars

\* crypto.Degree: Degree + 1 signatures make an aggregate
Degree == 1

\* the largest tip height of a chain given to updateSeed
MaxSeedTip == 6

\* the seeds an epoch may hold
Seeds == {<< >>, <<"x">>}

\* the DKG fields of a block header: none, an id and a key without signature,
\* or the producer's signature share over a seed
NoDKG == [DKGID |-> << >>, DKGPubkey |-> << >>, DKGBlockSig |-> << >>]

DKGHeaders(h) ==
  {NoDKG, [DKGID |-> <<h>>, DKGPubkey |-> <<"dkgpk", h>>, DKGBlockSig |-> << >>]}
  \cup {[DKGID |-> <<h>>, DKGPubkey |-> <<"dkgpk", h>>, DKGBlockSig |-> <<h, sd>>] :
          sd \in Seeds}

\* the chains of a given tip height, block h at index h
RECURSIVE SeedChains(_)
SeedChains(tipHeight) ==
  IF tipHeight = 0 THEN {<< >>}
  ELSE {Append(c, hd) : c \in SeedChains(tipHeight - 1), hd \in DKGHeaders(tipHeight)}

\* crypto.BLS.SignAggregate: the aggregate of the shares of the given ids
SignAggregate(ids, sigs) == <<"agg", ids, sigs>>

\* crypto.BLS.VerifyAggregate: every share is the share of its id, made with
\* the key given for it, over the message
VerifyAggregate(ids, pks, msg, aggregateSig) ==
  /\ aggregateSig[2] = ids
  /\ Len(aggregateSig[3]) = Len(ids)
  /\ Len(pks) = Len(ids)
  /\ \A i \in 1..Len(ids) :
       /\ pks[i] = <<"dkgpk", ids[i][1]>>
       /\ aggregateSig[3][i] = <<ids[i][1], msg>>

\* the loop of updateSeed from height i: the headers selected so far
RECURSIVE selectDKG_all(_, _, _, _)
selectDKG_all(i, endHeight, chain, selected) ==
  IF ~(i <= endHeight)
  THEN selected
  ELSE IF i > Len(chain)
  THEN selectDKG_all(i + 1, endHeight, chain, selected)
  ELSE LET hd == chain[i]
       IN  IF Len(hd.DKGID) > 0 /\ Len(hd.DKGPubkey) > 0 /\ Len(hd.DKGBlockSig) > 0
           THEN selectDKG_all(i + 1, endHeight, chain, Append(selected, hd))
           ELSE selectDKG_all(i + 1, endHeight, chain, selected)

RECURSIVE selectDKG(_, _, _, _)
selectDKG(i, endHeight, chain, selected) ==
  IF ~(i <= endHeight /\ Len(selected) < Degree + 1)
  THEN selected
  ELSE IF i > Len(chain)
  THEN selectDKG(i + 1, endHeight, chain, selected)
  ELSE LET hd == chain[i]
       IN  IF Len(hd.DKGID) > 0 /\ Len(hd.DKGPubkey) > 0 /\ Len(hd.DKGBlockSig) > 0
           THEN selectDKG(i + 1, endHeight, chain, Append(selected, hd))
           ELSE selectDKG(i + 1, endHeight, chain, selected)

\* cFSM.updateSeed: the error and the seed returned
updateSeed(tipHeight, chain, numDelegates, seed, okEpoch) ==
  LET epochNum == calcEpochNum(tipHeight, numDelegates)
      epochHeight == calcEpochHeight(epochNum, numDelegates)
      endHeight == epochHeight - 1
      startHeight == numDelegates * cfg.NumSubEpochs * (epochNum - 2) + 1
      selected == selectDKG(startHeight, endHeight, chain, << >>)
      selectedID == [i \in 1..Len(selected) |-> selected[i].DKGID]
      selectedSig == [i \in 1..Len(selected) |-> selected[i].DKGBlockSig]
      selectedPK == [i \in 1..Len(selected) |-> selected[i].DKGPubkey]
      aggregateSig == SignAggregate(selectedID, selectedSig)
  IN  IF ~okEpoch THEN [err |-> TRUE, seed |-> << >>]
      ELSE IF epochNum <= 1 THEN [err |-> FALSE, seed |-> << >>]
      ELSE IF Len(selected) < Degree + 1 THEN [err |-> TRUE, seed |-> << >>]
      ELSE IF ~VerifyAggregate(selectedID, selectedPK, seed, aggregateSig)
      THEN [err |-> TRUE, seed |-> << >>]
      ELSE [err |-> FALSE, seed |-> aggregateSig]

\* a chain, the seed of the current epoch, ...
InitSeed ==
  /\ Idle
  /\ \E tipHeight \in 0..MaxSeedTip, sd \in Seeds, okEpoch \in BOOLEAN :
       \E chain \in SeedChains(tipHeight) :
         call = [op |-> "chain",
                 arg |-> [tip |-> tipHeight, chain |-> chain, seed |-> sd,
                          okEpoch |-> okEpoch],
                 res |-> [err |-> FALSE, seed |-> << >>]]

\* ... and the seed of the next epoch derived from them
UpdateSeed ==
  /\ call.op = "chain"
  /\ call' = [call EXCEPT !.op = "derived",
                          !.res = updateSeed(call.arg.tip, call.arg.chain,
                                             cfg.NumDelegates, call.arg.seed,
                                             call.arg.okEpoch)]
  /\ UNCHANGED fsmVars

NextSeed == UpdateSeed

SpecSeed == InitSeed /\ [][NextSeed]_vars

\* ------------------------------------------------------------------------
\* The indexer (package indexservice, indexer.go)
\* ------------------------------------------------------------------------
\* Indexer.BuildIndex: the updates of the index tables in the order in which
\* the function given to Transact makes them, each with the message that
\* wraps its error
IndexUpdates ==
  <<[table |-> "TransferHistory",
     msg |-> "failed to update transfer to transfer history table"],
    [table |-> "TransferToBlock", msg |-> "failed to update transfer to block"],
    [table |-> "VoteHistory", msg |-> "failed to update vote to vote history table"],
    [table |-> "VoteToBlock", msg |-> "failed to update vote to block"],
    [table |-> "ExecutionHistory",
     msg |-> "failed to update execution to execution history table"],
    [table |-> "ExecutionToBlock", msg |-> "failed to update execution to block"],
    [table |-> "ActionHistory",
     msg |-> "failed to update action to action history table"],
    [table |-> "ActionToBlock", msg |-> "failed to update action to block"],
    [table |-> "HashToReceipt", msg |-> "failed to update hash to receipt"]>>

\* the function given to Transact, from its i-th update on: it returns at the
\* first update that fails; fails[i] says whether the i-th update fails
RECURSIVE UpdateFrom(_, _, _)
UpdateFrom(i, fails, done) ==
  IF i > Len(IndexUpdates) THEN [err |-> "", tables |-> done]
  ELSE IF fails[i] THEN [err |-> IndexUpdates[i].msg, tables |-> done]
  ELSE UpdateFrom(i + 1, fails, done \cup {IndexUpdates[i].table})

\* Store.Transact: runs the function in a transaction, commits it if the
\* function returns nil, rolls it back and returns the error otherwise
Transact(run) ==
  IF run.err = "" THEN run ELSE [err |-> run.err, tables |-> {}]

\* Indexer.BuildIndex: what it returns ("" for nil) and the tables updated
BuildIndex(fails) ==
  LET tx == Transact(UpdateFrom(1, fails, {}))
  IN  [err |-> "", tables |-> tx.tables]

\* Indexer.HandleBlock
HandleBlock(fails) == BuildIndex(fails)

\* a block is given to the indexer, through either function, and each update
\* of a table succeeds or fails ...
InitIndex ==
  /\ Idle
  /\ \E f \in [1..Len(IndexUpdates) -> BOOLEAN], op \in {"BuildIndex", "HandleBlock"} :
       call = [op |-> op, arg |-> f, res |-> << >>]

\* ... and the function returns
Index ==
  /\ call.op \in {"BuildIndex", "HandleBlock"}
  /\ call.res = << >>
  /\ call' = [call EXCEPT !.res = <<IF call.op = "BuildIndex" THEN BuildIndex(call.arg)
                                     ELSE HandleBlock(call.arg)>>]
  /\ UNCHANGED fsmVars

NextIndex == Index

SpecIndex == InitIndex /\ [][NextIndex]_vars

\* ------------------------------------------------------------------------
\* Properties
\* ------------------------------------------------------------------------
\* the last step was a step of the worker: it took an event off the channel
Worked == last.outcome # "none"

\* the number of endorsers of block hash h whose decision in tally m is d
CountVotes(m, h, d) ==
  IF h \in DOMAIN m THEN Cardinality({a \in DOMAIN m[h] : m[h][a] = d}) ELSE 0

\* two thirds of n, rounded up, plus one, in integer arithmetic
QuorumSize(n) == CHOOSE k \in 1..(n + 2) : 3 * (k - 1) >= 2 * n /\ 3 * (k - 2) < 2 * n

\* C1, as the specification states it: a timeout event scheduled during an
\* earlier round than the one in progress never causes a transition; the
\* worker does not hand it to a handler.  The code compares clock readings
\* only, so a timeout scheduled at the clock reading at which the next round
\* starts is not stale there.
C1_TimeoutOfEarlierRoundNotHandled ==
  (Worked /\ last.evt.kind = "timeoutEvt" /\ last.evt.rnd < roundNum)
    => last.outcome # "handled"

\* C2: a dequeued timeout event whose timestamp is strictly earlier than the
\* round's timestamp changes neither the state of the FSM nor the round nor
\* the epoch, and is neither handled nor produced again: the worker step only
\* takes it off the channel.
C2_StaleTimeoutIgnored ==
  [][(last'.outcome # "none" /\ Head(evtq).kind = "timeoutEvt"
        /\ Head(evtq).ts < round.timestamp)
      => /\ last'.outcome = "stale"
         /\ state' = state /\ round' = round /\ epoch' = epoch
         /\ tip' = tip /\ tipTime' = tipTime
         /\ evtq' = Tail(evtq) /\ delayed' = delayed
         /\ last'.produced = << >> /\ last'.commits = << >> /\ last'.bcast = << >>]_vars

C2_Witness ==
  /\ last.outcome = "stale"
  /\ last.evt.kind = "timeoutEvt"
  /\ last.evt.ts < round.timestamp
  /\ last.evt.rnd < roundNum

C4_EarlyEndorseNeverDropped ==
  ~(/\ last.outcome = "dropped"
    /\ last.evt.t = eEndorseProposal
    /\ last.evt.endorse.height = round.height
    /\ apeAt > 0
    /\ last.evt.ts < apeAt
    /\ apeAt - last.evt.ts <= UnmatchedEventTTL)

\* C4, amended: an EndorseProposal dequeued outside AcceptProposalEndorse is
\* produced again with delay UnmatchedEventInterval as long as its age is
\* within UnmatchedEventTTL and is dropped only when it is older; one dequeued
\* in AcceptProposalEndorse with the round's height has its decision written
\* into the proposal tally under its block hash and endorser.
C4_EarlyEndorseRedelivered ==
  /\ (Worked /\ last.evt.t = eEndorseProposal /\ last.src # sAcceptProposalEndorse)
       => /\ state = last.src
          /\ IF now - last.evt.ts <= UnmatchedEventTTL
             THEN /\ last.outcome = "requeued"
                  /\ BagIn([evt |-> last.evt, due |-> now + UnmatchedEventInterval], delayed)
             ELSE last.outcome = "dropped"
  /\ (Worked /\ last.evt.t = eEndorseProposal /\ last.src = sAcceptProposalEndorse
         /\ last.evt.endorse.height = round.height)
       => /\ last.outcome = "handled"
          /\ last.evt.endorse.blkHash \in DOMAIN round.proposalEndorses
          /\ last.evt.endorse.endorser
               \in DOMAIN round.proposalEndorses[last.evt.endorse.blkHash]
          /\ round.proposalEndorses[last.evt.endorse.blkHash][last.evt.endorse.endorser]
               = last.evt.endorse.decision

\* an EndorseProposal that arrived before AcceptProposalEndorse, was produced
\* again, and is tallied in AcceptProposalEndorse
C4_Witness ==
  /\ last.outcome = "handled"
  /\ last.src = sAcceptProposalEndorse
  /\ last.evt.t = eEndorseProposal
  /\ last.evt.endorse.height = round.height
  /\ last.evt.endorse.endorser # addr
  /\ apeAt > 0
  /\ last.evt.ts < apeAt
  /\ CountVotes(round.proposalEndorses, last.evt.endorse.blkHash,
                last.evt.endorse.decision) >= 1

\* the endorsement carried by the event the worker dequeued last
LastEn == last.evt.endorse

\* the worker handled an endorsement of the round's height in
\* AcceptProposalEndorse / a commit endorsement in AcceptCommitEndorse
TalliedProposal ==
  /\ last.outcome = "handled"
  /\ last.src = sAcceptProposalEndorse
  /\ last.evt.t = eEndorseProposal
  /\ LastEn.height = round.height

TalliedCommit ==
  /\ last.outcome = "handled"
  /\ last.src = sAcceptCommitEndorse
  /\ last.evt.t = eEndorseCommit

C7_YesQuorumCommitsBlock ==
  (/\ TalliedCommit
   /\ LastEn.height = round.height
   /\ CountVotes(round.commitEndorses, LastEn.blkHash, TRUE)
        >= QuorumSize(Len(epoch.delegates)))
  => /\ state = sRoundStart
     /\ round.block # NilBlock
     /\ Len(last.commits) = 1
     /\ last.commits[1].blk = round.block
     /\ last.bcast = <<BlockPb(round.block)>>

\* the agreement on the round's block failed: the commit timeout was handled,
\* or a commit endorsement completed a quorum of decisions false
AgreementFailed ==
  \/ /\ last.outcome = "handled"
     /\ last.src = sAcceptCommitEndorse
     /\ last.evt.t = eEndorseCommitTimeout
  \/ /\ TalliedCommit
     /\ CountVotes(round.commitEndorses, LastEn.blkHash, FALSE)
          >= QuorumSize(Len(epoch.delegates))

\* C8: on agreement failure the FSM moves to RoundStart and produces
\* FinishEpoch without delay; with EnableDummyBlock CommitBlock is called
\* exactly once, with a dummy block minted at the tip (the new tip unless
\* CommitBlock returned an error), and without it CommitBlock is not called
\* and the tip stays.
C8_AgreementFailure ==
  AgreementFailed =>
    /\ state = sRoundStart
    /\ last.produced = <<P(newCEvt(eFinishEpoch, now, roundNum), 0)>>
    /\ IF cfg.EnableDummyBlock
       THEN /\ Len(last.commits) = 1
            /\ last.commits[1].blk.dummy
            /\ last.commits[1].blk.height = round.height
            /\ last.commits[1].ok => tip = round.height
            /\ ~last.commits[1].ok => tip = round.height - 1
       ELSE /\ last.commits = << >>
            /\ tip = round.height - 1

\* a quorum of decisions false with dummy blocks enabled
C8_Witness ==
  /\ TalliedCommit
  /\ CountVotes(round.commitEndorses, LastEn.blkHash, FALSE)
       >= QuorumSize(Len(epoch.delegates))
  /\ cfg.EnableDummyBlock
  /\ Len(last.commits) = 1
  /\ tip = round.height

\* nothing has come from the network and this node is not the round's proposer
SilentRound ==
  /\ net.sent = 0
  /\ net.blocks = 0
  /\ roundNum > 0
  /\ round.proposer # addr

\* a timeout of type t scheduled in this round is sleeping or in the channel
Armed(t) ==
  \/ \E i \in 1..Len(evtq) :
       evtq[i].t = t /\ evtq[i].kind = "timeoutEvt" /\ evtq[i].rnd = roundNum
  \/ \E d \in BagToSet(delayed) :
       d.evt.t = t /\ d.evt.kind = "timeoutEvt" /\ d.evt.rnd = roundNum

\* C9: with a silent proposer and no endorsement, a node that is not the
\* proposer advances by timeouts alone.  In each accept state the timeout that
\* leaves it is armed; ProposeBlockTimeout, not before AcceptProposeTTL, takes
\* AcceptPropose to AcceptProposalEndorse and arms EndorseProposalTimeout
\* with AcceptProposalEndorseTTL; that one takes the FSM to AcceptCommitEndorse
\* and arms EndorseCommitTimeout with AcceptCommitEndorseTTL; that one takes
\* the FSM to RoundStart, CommitBlock being called with a dummy block of the
\* round's height when EnableDummyBlock is set.
C9_TimeoutsAlone ==
  SilentRound =>
    /\ state = sAcceptPropose => Armed(eProposeBlockTimeout)
    /\ state = sAcceptProposalEndorse => Armed(eEndorseProposalTimeout)
    /\ state = sAcceptCommitEndorse => Armed(eEndorseCommitTimeout)
    /\ (Worked /\ last.evt.kind = "timeoutEvt") =>
         /\ last.outcome = "handled"
         /\ last.evt.t = eProposeBlockTimeout =>
              /\ last.src = sAcceptPropose
              /\ now >= last.evt.ts + AcceptProposeTTL
              /\ state = sAcceptProposalEndorse
              /\ last.produced =
                   <<P(newTimeoutEvt(eEndorseProposalTimeout, now, roundNum),
                       AcceptProposalEndorseTTL)>>
         /\ last.evt.t = eEndorseProposalTimeout =>
              /\ last.src = sAcceptProposalEndorse
              /\ now >= last.evt.ts + AcceptProposalEndorseTTL
              /\ state = sAcceptCommitEndorse
              /\ last.produced =
                   <<P(newTimeoutEvt(eEndorseCommitTimeout, now, roundNum),
                       AcceptCommitEndorseTTL)>>
         /\ last.evt.t = eEndorseCommitTimeout =>
              /\ last.src = sAcceptCommitEndorse
              /\ now >= last.evt.ts + AcceptCommitEndorseTTL
              /\ state = sRoundStart
              /\ cfg.EnableDummyBlock =>
                   /\ Len(last.commits) = 1
                   /\ last.commits[1].blk.dummy
                   /\ last.commits[1].blk.height = round.height

\* the whole path: the third timeout has ended a silent round, three TTLs
\* after it started, with a dummy block at the round's height
C9_Witness ==
  /\ SilentRound
  /\ last.outcome = "handled"
  /\ last.evt.t = eEndorseCommitTimeout
  /\ state = sRoundStart
  /\ now = round.timestamp + AcceptProposeTTL + AcceptProposalEndorseTTL
             + AcceptCommitEndorseTTL
  /\ cfg.EnableDummyBlock
  /\ tip = round.height
  /\ round.block = NilBlock

\* C10: handling ProposeBlock in AcceptPropose (the expected proposer being
\* known).  A valid block becomes the round's block, the node produces and
\* broadcasts its own EndorseProposal with decision true for the block's hash
\* and the round's height, schedules EndorseProposalTimeout after
\* AcceptProposalEndorseTTL and moves to AcceptProposalEndorse.  An invalid
\* block leaves the FSM in AcceptPropose with no block, and nothing is
\* produced, broadcast or scheduled.
C10_ProposeBlock ==
  (last.outcome = "handled" /\ last.src = sAcceptPropose /\ last.evt.t = eProposeBlock) =>
    LET blk == last.evt.block
        expected == epoch.delegates[((blk.height - epoch.height) % Len(epoch.delegates)) + 1]
        valid == /\ blk.height = round.height
                 /\ blk.producer = expected
                 /\ blk.sigOK
                 /\ blk.producer = addr \/ (blk.chainOK /\ blk.dkg # "bad")
        own == [topic |-> endorseProposal, height |-> round.height,
                blkHash |-> HashBlock(blk), decision |-> TRUE, endorser |-> addr, sigOK |-> TRUE]
    IN  IF valid
        THEN /\ round.block = blk
             /\ state = sAcceptProposalEndorse
             /\ last.produced =
                  <<P(newEndorseEvtWithEndorse(own, now, roundNum), 0),
                    P(newTimeoutEvt(eEndorseProposalTimeout, now, roundNum),
                      AcceptProposalEndorseTTL)>>
             /\ last.bcast = <<EndorsePb(own)>>
        ELSE /\ round.block = NilBlock
             /\ state = sAcceptPropose
             /\ last.produced = << >>
             /\ last.bcast = << >>

\* a block whose producer is not the expected proposer is refused
C10_Witness ==
  /\ last.outcome = "handled"
  /\ last.src = sAcceptPropose
  /\ last.evt.t = eProposeBlock
  /\ last.evt.block.height = round.height
  /\ last.evt.block.producer # round.proposer
  /\ state = sAcceptPropose
  /\ round.block = NilBlock

\* C11: a proposed block handled in AcceptPropose is accepted (it becomes the
\* round's block and the FSM moves to AcceptProposalEndorse) if and only if
\* (1) its height is the round's height, (2) its producer is the expected
\* proposer of that height, (3) its signature verifies, and, unless the local
\* node produced it, (4) the chain validates it and (5) its DKG signature,
\* when it carries one, verifies.
C11_BlockAcceptedIff ==
  (last.outcome = "handled" /\ last.src = sAcceptPropose /\ last.evt.t = eProposeBlock) =>
    LET blk == last.evt.block
        n == Len(epoch.delegates)
        expected == epoch.delegates[((blk.height - epoch.height) % n) + 1]
        c1 == blk.height = round.height
        c2 == blk.producer = expected
        c3 == blk.sigOK
        c4 == blk.chainOK
        c5 == blk.dkg \in {"good", "none"}
        local == blk.producer = addr
        accepted == state = sAcceptProposalEndorse /\ round.block = blk
    IN  /\ accepted <=> (c1 /\ c2 /\ c3 /\ (local \/ (c4 /\ c5)))
        /\ ~accepted => (state = sAcceptPropose /\ round.block = NilBlock)

\* a block of the local node that the chain would not validate is accepted
C11_Witness ==
  /\ last.outcome = "handled"
  /\ last.src = sAcceptPropose
  /\ last.evt.t = eProposeBlock
  /\ last.evt.block.producer = addr
  /\ ~last.evt.block.chainOK
  /\ round.block = last.evt.block
  /\ state = sAcceptProposalEndorse

\* tally new is tally old with the decision of endorsement en written under
\* its block hash and endorser, and nothing else changed
Written(old, new, en) ==
  /\ DOMAIN new = DOMAIN old \cup {en.blkHash}
  /\ \A h \in DOMAIN new :
       /\ DOMAIN new[h] = (IF h \in DOMAIN old THEN DOMAIN old[h] ELSE {})
                            \cup (IF h = en.blkHash THEN {en.endorser} ELSE {})
       /\ \A a \in DOMAIN new[h] :
            new[h][a] = IF h = en.blkHash /\ a = en.endorser THEN en.decision
                        ELSE old[h][a]

\* C12: the tallies change only by the write of an accepted endorsement,
\* which puts its decision under (block hash, endorser) in the tally of its
\* topic, replacing what that endorser had there and touching no other entry,
\* and by the start of a round, which empties them.  So every entry is the
\* decision of the endorser's latest accepted endorsement for that hash, and
\* an endorser counts once under a hash.
C12_LastWriteWins ==
  [][IF /\ last'.outcome = "handled" /\ state = sAcceptProposalEndorse
        /\ Head(evtq).t = eEndorseProposal
        /\ Head(evtq).endorse.height = round.height
     THEN /\ Written(round.proposalEndorses, round'.proposalEndorses, Head(evtq).endorse)
          /\ round'.commitEndorses = round.commitEndorses
     ELSE IF /\ last'.outcome = "handled" /\ state = sAcceptCommitEndorse
             /\ Head(evtq).t = eEndorseCommit
     THEN /\ Written(round.commitEndorses, round'.commitEndorses, Head(evtq).endorse)
          /\ round'.proposalEndorses = round.proposalEndorses
     ELSE \/ /\ round'.proposalEndorses = round.proposalEndorses
             /\ round'.commitEndorses = round.commitEndorses
          \/ /\ last'.outcome = "handled" /\ Head(evtq).t = eStartRound
             /\ round'.proposalEndorses = EmptyMap
             /\ round'.commitEndorses = EmptyMap]_vars

\* an endorser that had voted true for a hash votes false for it: the tally
\* holds false and still one entry for that endorser
C12_Witness ==
  /\ TalliedProposal
  /\ last.prev = "true"
  /\ ~LastEn.decision
  /\ ~round.proposalEndorses[LastEn.blkHash][LastEn.endorser]
  /\ CountVotes(round.proposalEndorses, LastEn.blkHash, TRUE)
       + CountVotes(round.proposalEndorses, LastEn.blkHash, FALSE)
       = Cardinality(DOMAIN round.proposalEndorses[LastEn.blkHash])

\* C13, as the specification states it: an endorsement whose height is not
\* the round's height, handled as EndorseProposal in AcceptProposalEndorse or
\* as EndorseCommit in AcceptCommitEndorse, changes neither the state nor the
\* entry of its endorser in the tally, and no block is committed.  The commit
\* handler tests the topic only.
C13_WrongHeightEndorseIgnored ==
  (/\ Worked
   /\ last.evt.kind = "endorseEvt"
   /\ \/ last.src = sAcceptProposalEndorse /\ last.evt.t = eEndorseProposal
      \/ last.src = sAcceptCommitEndorse /\ last.evt.t = eEndorseCommit
   /\ LastEn.height # round.height)
  => /\ state = last.src
     /\ PrevDecision(last.evt) = last.prev
     /\ last.commits = << >>

\* C14: when CommitBlock fails the FSM is in RoundStart all the same, the
\* FinishEpoch it produced is waiting in the channel, and the tip has not
\* moved.
C14_CommitFailureFinishesRound ==
  (Worked /\ Len(last.commits) = 1 /\ ~last.commits[1].ok)
  => /\ state = sRoundStart
     /\ last.outcome = "handled"
     /\ last.produced = <<P(newCEvt(eFinishEpoch, now, roundNum), 0)>>
     /\ \E i \in 1..Len(evtq) : evtq[i] = newCEvt(eFinishEpoch, now, roundNum)
     /\ tip = round.height - 1

C14_Witness ==
  /\ Worked
  /\ last.src = sAcceptCommitEndorse
  /\ Len(last.commits) = 1
  /\ ~last.commits[1].ok
  /\ state = sRoundStart
  /\ evtq # << >>
  /\ Head(evtq).t = eFinishEpoch

\* C15, as the specification states it: when a broadcast fails the FSM is
\* still in the state in which the event was taken.
C15_BroadcastFailureKeepsState ==
  (Worked /\ ~last.bcastOK) => state = last.src

\* C15, as the code has it: a failed broadcast is logged and nothing else; the
\* handler ends as it does when the broadcast succeeds, with its own events
\* produced and the FSM in the destination state.
C15_BroadcastFailureOnlyLogged ==
  (Worked /\ ~last.bcastOK)
  => /\ last.outcome = "handled"
     /\ Len(last.bcast) = 1
     /\ \/ /\ last.src = sInitPropose /\ last.evt.t = eInitBlock
           /\ last.bcast[1].msg = "ProposePb"
           /\ state = sAcceptPropose
           /\ Len(last.produced) = 1
           /\ last.produced[1].evt.t = eProposeBlock
        \/ /\ last.src = sAcceptPropose /\ last.evt.t = eProposeBlock
           /\ last.bcast[1].msg = "EndorsePb"
           /\ state = sAcceptProposalEndorse
           /\ Len(last.produced) = 2
           /\ last.produced[1].evt.t = eEndorseProposal
           /\ last.produced[2].evt.t = eEndorseProposalTimeout
        \/ /\ last.src = sAcceptProposalEndorse /\ last.evt.t = eEndorseProposal
           /\ last.bcast[1].msg = "EndorsePb"
           /\ state = sAcceptCommitEndorse
           /\ Len(last.produced) = 2
           /\ last.produced[1].evt.t = eEndorseCommit
           /\ last.produced[2].evt.t = eEndorseCommitTimeout
        \/ /\ last.src = sAcceptCommitEndorse
           /\ last.evt.t \in {eEndorseCommit, eEndorseCommitTimeout}
           /\ last.bcast[1].msg = "BlockPb"
           /\ state = sRoundStart
           /\ Len(last.produced) = 1
           /\ last.produced[1].evt.t = eFinishEpoch

C15_Witness ==
  /\ Worked
  /\ ~last.bcastOK
  /\ last.src = sInitPropose
  /\ state = sAcceptPropose
  /\ evtq # << >>
  /\ Head(evtq).t = eProposeBlock

\* the events waiting, in the channel or with a delayed producer, that have a
\* transition out of state s
PendingFor(s) ==
  {evtq[i] : i \in {j \in 1..Len(evtq) : HasEdge(s, evtq[j].t)}}
    \cup {d.evt : d \in {x \in BagToSet(delayed) : HasEdge(s, x.evt.t)}}

\* C16, as the specification states it: after GenerateDKG, StartRound,
\* InitBlock or FinishEpoch has failed, an event that can take the FSM out of
\* the state of the failure is waiting.  Only RollDelegates schedules its retry.
C16_ErrorSchedulesRetry ==
  (/\ last.outcome = "error"
   /\ last.evt.t \in {eGenerateDKG, eStartRound, eInitBlock, eFinishEpoch})
  => PendingFor(state) # {}

\* C17: the current state is always one of the seven consensus states and
\* never the sentinel; it is EpochStart until the first RollDelegates has
\* succeeded; and after a handler has returned an error it is the state in
\* which the event was taken.
C17_StateIsConsensusState ==
  /\ state \in consensusStates
  /\ state # sInvalid
  /\ (epoch = ZeroEpoch => state = sEpochStart)
  /\ (last.outcome = "error" => state = last.src)

C17_Witness ==
  /\ last.outcome = "error"
  /\ last.evt.t = eStartRound
  /\ last.src = sRoundStart
  /\ state = sRoundStart

\* C18, as the specification states it, in the form of the state it excludes:
\* after Stop has closed the channel there is never a goroutine of produce
\* blocked in its send on a full channel that the worker has stopped reading;
\* such a goroutine never calls wg.Done and Stop never returns.
Hung ==
  /\ closed
  /\ ~running
  /\ sending # EmptyBag
  /\ ~HasRoom(evtq)

C18_StopNeverHangs == ~Hung

\* C19, as the specification states it: no delayed producer adds its event to
\* the channel after the close, and once Stop has returned the worker is gone
\* and has handled nothing since.
C19_NoEnqueueAfterClose ==
  /\ ~lateSend
  /\ stopped => (~running /\ last.outcome = "none")

\* the events a handler sent to the channel at once, in order, and the
\* productions it handed to a delayed producer
SentNow(ps) ==
  LET z == SelectSeq(ps, LAMBDA p : p.delay = 0)
  IN  [i \in 1..Len(z) |-> z[i].evt]

HeldBack(ps) == SelectSeq(ps, LAMBDA p : p.delay > 0)

C21_RoundClearedInRoundStart ==
  (state = sRoundStart /\ roundNum > 0)
  => /\ round.block = NilBlock
     /\ round.proposalEndorses = EmptyMap
     /\ round.commitEndorses = EmptyMap

\* C21, as the code has it: the step from AcceptCommitEndorse to RoundStart
\* keeps the block, the height, the proposal tally and every entry of the
\* commit tally; in RoundStart the round context changes only when StartRound
\* is handled, and then it is a fresh one stamped with the clock.
C21_RoundKeptUntilStartRound ==
  [][/\ (state = sAcceptCommitEndorse /\ state' = sRoundStart)
        => /\ round'.block = round.block
           /\ round'.height = round.height
           /\ round'.timestamp = round.timestamp
           /\ round'.proposalEndorses = round.proposalEndorses
           /\ \A h \in DOMAIN round.commitEndorses :
                /\ h \in DOMAIN round'.commitEndorses
                /\ DOMAIN round.commitEndorses[h] \subseteq DOMAIN round'.commitEndorses[h]
     /\ (state = sRoundStart /\ round' # round)
        => /\ last'.outcome = "handled"
           /\ last'.evt.t = eStartRound
           /\ round'.block = NilBlock
           /\ round'.proposalEndorses = EmptyMap
           /\ round'.commitEndorses = EmptyMap
           /\ round'.timestamp = now
           /\ round'.height = tip + 1]_vars

C21_Witness ==
  /\ state = sRoundStart
  /\ last.src = sAcceptCommitEndorse
  /\ last.evt.t = eEndorseCommitTimeout
  /\ round.block # NilBlock
  /\ round.proposalEndorses # EmptyMap

\* C22, as the specification states it: the StartRound that GenerateDKG or
\* FinishEpoch schedules is delayed by what is missing to ProposerInterval
\* since the timestamp of the last committed block, and StartRound is never
\* handled before ProposerInterval has passed since that timestamp.
\* produceStartRoundEvt takes the timestamp of the round's block whenever the
\* round holds one, committed or not.
C22_RoundStartPacing ==
  /\ (/\ last.outcome = "handled"
      /\ last.evt.t \in {eGenerateDKG, eFinishEpoch}
      /\ state = sRoundStart)
     => last.produced
          = <<P(newCEvt(eStartRound, now, roundNum),
                IF now - tipTime >= cfg.ProposerInterval
                THEN 0
                ELSE cfg.ProposerInterval - (now - tipTime))>>
  /\ (last.outcome = "handled" /\ last.evt.t = eStartRound)
     => now - tipTime >= cfg.ProposerInterval

\* C23, as the specification states it: the endorsement the receiver builds
\* from the wire record equals the one the sender signed, field by field, and
\* its signature verifies with its public key.  fromProtoMsg copies the
\* signature into the nil slice of a zero endorse.
C23_EndorseRoundTrip ==
  call.op = "received"
  => /\ ~call.res.err
     /\ call.res.en.height = call.arg.height
     /\ call.res.en.blkHash = call.arg.blkHash
     /\ call.res.en.topic = call.arg.topic
     /\ call.res.en.endorser = call.arg.endorser
     /\ call.res.en.endorserPubkey = call.arg.endorserPubkey
     /\ call.res.en.decision = call.arg.decision
     /\ call.res.en.signature = call.arg.signature
     /\ VerifySignature(call.res.en, call.res.en.endorserPubkey)

\* C24, as the specification states it: for the RollDPoS scheme validation
\* rejects a configuration with time based rotation and without dummy blocks,
\* and accepts one with time based rotation and dummy blocks whose other
\* fields are valid.  ValidateRollDPoS tests the opposite condition.
C24_TimeBasedRotationNeedsDummyBlock ==
  (call.op = "validated" /\ call.arg.Scheme = RollDPoSScheme
     /\ call.arg.TimeBasedRotation)
  => /\ ~call.arg.EnableDummyBlock => call.res # ""
     /\ (/\ call.arg.EnableDummyBlock
         /\ call.arg.EventChanSize > 0
         /\ call.arg.NumDelegates > 0) => call.res = ""

\* the heights of the window of the previous epoch whose blocks carry an id,
\* a key and a signature share, and the k lowest of them in ascending order
Qualifying(chain, lo, hi) ==
  {h \in lo..hi : /\ h \in DOMAIN chain
                  /\ chain[h].DKGID # << >>
                  /\ chain[h].DKGPubkey # << >>
                  /\ chain[h].DKGBlockSig # << >>}

RECURSIVE Lowest(_, _)
Lowest(hs, k) ==
  IF k = 0 \/ hs = {} THEN << >>
  ELSE LET m == CHOOSE h \in hs : \A g \in hs : h <= g
       IN  <<m>> \o Lowest(hs \ {m}, k - 1)

SeedWindow ==
  LET n == call.arg.tip \div (cfg.NumDelegates * NumSubEpochs) + 1
  IN  [epochNum |-> n,
       lo |-> cfg.NumDelegates * NumSubEpochs * (n - 2) + 1,
       hi |-> cfg.NumDelegates * NumSubEpochs * (n - 1)]

\* C25: the seed derived is empty for epoch 1; from epoch 2 on it is the
\* aggregate over the first Degree + 1 blocks of the window, in ascending
\* height, that carry an id, a key and a signature share; the derivation
\* fails when fewer such blocks exist or the aggregate does not verify against
\* the previous seed.
C25_SeedDerivation ==
  (call.op = "derived" /\ call.arg.okEpoch)
  => LET w == SeedWindow
         q == Qualifying(call.arg.chain, w.lo, w.hi)
         first == Lowest(q, Degree + 1)
         ids == [i \in 1..Len(first) |-> call.arg.chain[first[i]].DKGID]
         pks == [i \in 1..Len(first) |-> call.arg.chain[first[i]].DKGPubkey]
         sigs == [i \in 1..Len(first) |-> call.arg.chain[first[i]].DKGBlockSig]
         agg == SignAggregate(ids, sigs)
     IN  IF w.epochNum <= 1
         THEN call.res = [err |-> FALSE, seed |-> << >>]
         ELSE IF Cardinality(q) < Degree + 1
         THEN call.res.err
         ELSE IF ~VerifyAggregate(ids, pks, call.arg.seed, agg)
         THEN call.res.err
         ELSE call.res = [err |-> FALSE, seed |-> agg]

\* a seed derived from a window that holds more qualifying blocks than the
\* aggregate takes
C25_Witness ==
  /\ call.op = "derived"
  /\ call.arg.okEpoch
  /\ SeedWindow.epochNum >= 2
  /\ Cardinality(Qualifying(call.arg.chain, SeedWindow.lo, SeedWindow.hi)) > Degree + 1
  /\ ~call.res.err
  /\ call.res.seed # << >>

\* the chain of a node that joined before the last block of the first epoch:
\* the blocks it found carry a signature share over the empty seed of the
\* first epoch, and nothing is assumed of the blocks committed since
PriorChain(tipHeight) ==
  [h \in 1..tipHeight |->
     IF h <= 3 * NumSubEpochs - 1
     THEN [DKGID |-> <<h>>, DKGPubkey |-> <<"dkgpk", h>>, DKGBlockSig |-> <<h, << >> >>]
     ELSE NoDKG]

\* C26, as the specification states it: when RollDelegates takes a delegate
\* from one epoch into the next, the new epoch context holds the new committee
\* and the seed the aggregator derives over the blocks of the previous epoch.
\* handleRollDelegatesEvt builds the context without a seed and nothing calls
\* updateSeed.
C26_NewEpochSeedDerived ==
  [][(/\ state = sEpochStart
      /\ state' = sDKGGeneration
      /\ epoch.num >= 1
      /\ epoch'.num > epoch.num)
     => LET r == updateSeed(tip, PriorChain(tip), cfg.NumDelegates, epoch.seed, TRUE)
        IN  /\ epoch'.delegates = rollingDelegates(epoch'.num, cfg.NumDelegates)
            /\ ~r.err => epoch'.seed = r.seed]_vars

\* the edges of the transition table, with their destinations
TableEdge(s, t, d) ==
  \/ s = sEpochStart /\ t = eRollDelegates /\ d \in {sEpochStart, sDKGGeneration}
  \/ s = sDKGGeneration /\ t = eGenerateDKG /\ d = sRoundStart
  \/ s = sRoundStart /\ t = eStartRound /\ d \in {sInitPropose, sAcceptPropose}
  \/ s = sRoundStart /\ t = eFinishEpoch /\ d \in {sEpochStart, sRoundStart}
  \/ s = sInitPropose /\ t = eInitBlock /\ d = sAcceptPropose
  \/ /\ s = sAcceptPropose
     /\ t \in {eProposeBlock, eProposeBlockTimeout}
     /\ d \in {sAcceptPropose, sAcceptProposalEndorse}
  \/ /\ s = sAcceptProposalEndorse
     /\ t \in {eEndorseProposal, eEndorseProposalTimeout}
     /\ d \in {sAcceptProposalEndorse, sAcceptCommitEndorse}
  \/ /\ s = sAcceptCommitEndorse
     /\ t \in {eEndorseCommit, eEndorseCommitTimeout}
     /\ d \in {sAcceptCommitEndorse, sRoundStart}

\* C27: every event handled takes the machine along an edge (source, event,
\* destination) of the transition table, and the state changes in no other
\* step.
C27_OnlyTableEdges ==
  /\ [](last.outcome = "handled" => TableEdge(last.src, last.evt.t, state))
  /\ [][state' # state => (last'.outcome = "handled" /\ last'.src = state)]_vars

\* a commit endorsement has taken the machine to the next round
C27_Witness ==
  /\ last.outcome = "handled"
  /\ last.src = sAcceptCommitEndorse
  /\ last.evt.t = eEndorseCommit
  /\ state = sRoundStart

\* C28: handling StartRound in RoundStart replaces the round context with a
\* fresh one (the height after the tip, the proposer the rotation gives for
\* it, the time of handling, empty tallies, no block); the proposer produces
\* InitBlock without delay and moves to InitPropose, any other node schedules
\* ProposeBlockTimeout after AcceptProposeTTL and moves to AcceptPropose.
C28_StartRound ==
  (last.outcome = "handled" /\ last.evt.t = eStartRound)
  => /\ last.src = sRoundStart
     /\ round = [height |-> tip + 1, timestamp |-> now,
                 proposer |-> epoch.delegates[((tip + 1 - epoch.height)
                                                 % Len(epoch.delegates)) + 1],
                 block |-> NilBlock, proposalEndorses |-> EmptyMap,
                 commitEndorses |-> EmptyMap]
     /\ IF addr = round.proposer
        THEN /\ state = sInitPropose
             /\ last.produced = <<P(newCEvt(eInitBlock, now, roundNum), 0)>>
             /\ evtq # << >>
             /\ evtq[Len(evtq)] = newCEvt(eInitBlock, now, roundNum)
        ELSE /\ state = sAcceptPropose
             /\ last.produced = <<P(newTimeoutEvt(eProposeBlockTimeout, now, roundNum),
                                    AcceptProposeTTL)>>
             /\ BagIn([evt |-> newTimeoutEvt(eProposeBlockTimeout, now, roundNum),
                       due |-> now + AcceptProposeTTL], delayed)

\* the second round of a node that is not its proposer has started, the first
\* one having committed its block on a quorum of endorsements
C28_Witness ==
  /\ last.outcome = "handled"
  /\ last.evt.t = eStartRound
  /\ roundNum = 2
  /\ ~cfg.EnableDummyBlock
  /\ tip = 1
  /\ state = sAcceptPropose

\* C29: handling an EndorseProposal of the round's height in
\* AcceptProposalEndorse records the decision and takes the quorum of the
\* endorsed block hash.  Without a quorum the FSM stays and emits nothing; with
\* one the node produces and broadcasts one EndorseCommit for that block hash
\* and the round's height, in favour iff the quorum is yes and not no,
\* schedules EndorseCommitTimeout after AcceptCommitEndorseTTL and moves to
\* AcceptCommitEndorse.
C29_EndorseProposalQuorum ==
  (TalliedProposal /\ LastEn.topic = endorseProposal)
  => LET need == QuorumSize(Len(epoch.delegates))
         yes == CountVotes(round.proposalEndorses, LastEn.blkHash, TRUE) >= need
         no == CountVotes(round.proposalEndorses, LastEn.blkHash, FALSE) >= need
         own == [topic |-> endorseCommit, height |-> round.height,
                 blkHash |-> LastEn.blkHash, decision |-> (yes /\ ~no),
                 endorser |-> addr, sigOK |-> TRUE]
     IN  /\ LastEn.blkHash \in DOMAIN round.proposalEndorses
         /\ LastEn.endorser \in DOMAIN round.proposalEndorses[LastEn.blkHash]
         /\ round.proposalEndorses[LastEn.blkHash][LastEn.endorser] = LastEn.decision
         /\ IF ~yes /\ ~no
            THEN /\ state = sAcceptProposalEndorse
                 /\ last.produced = << >>
                 /\ last.bcast = << >>
            ELSE /\ state = sAcceptCommitEndorse
                 /\ last.produced =
                      <<P(newEndorseEvtWithEndorse(own, now, roundNum), 0),
                        P(newTimeoutEvt(eEndorseCommitTimeout, now, roundNum),
                          AcceptCommitEndorseTTL)>>
                 /\ last.bcast = <<EndorsePb(own)>>

\* a quorum of endorsements against the proposal has been reached
C29_Witness ==
  /\ TalliedProposal
  /\ LastEn.topic = endorseProposal
  /\ state = sAcceptCommitEndorse
  /\ CountVotes(round.proposalEndorses, LastEn.blkHash, FALSE)
       >= QuorumSize(Len(epoch.delegates))
  /\ Len(last.bcast) = 1
  /\ ~last.bcast[1].endorse.decision

\* C30: handling RollDelegates in EpochStart.  A node of the committee
\* replaces the epoch context by one with the epoch number and start height
\* of the next block, the committee and at least one sub-epoch (one when none
\* is configured), produces GenerateDKG without delay and moves to
\* DKGGeneration.  A node outside the committee, or one that could not compute
\* the epoch or the committee, keeps the epoch context, stays in EpochStart
\* and schedules exactly one RollDelegates after DelegateInterval.
C30_RollDelegates ==
  /\ [][(/\ state = sEpochStart
          /\ last'.evt.t = eRollDelegates
          /\ last'.outcome \in {"handled", "error"}
          /\ state' = sEpochStart)
         => epoch' = epoch]_vars
  /\ [](last.evt.t = eRollDelegates /\ last.outcome \in {"handled", "error"}
         => LET sub == IF cfg.NumSubEpochs = 0 THEN 1 ELSE cfg.NumSubEpochs
                num == tip \div (cfg.NumDelegates * sub) + 1
                committee == SubSeq(Candidates, 1, cfg.NumDelegates)
                member == \E i \in 1..Len(committee) : committee[i] = addr
            IN  /\ last.src = sEpochStart
                /\ IF last.outcome = "handled" /\ member
                   THEN /\ state = sDKGGeneration
                        /\ epoch.num = num
                        /\ epoch.height = (num - 1) * cfg.NumDelegates * sub + 1
                        /\ epoch.delegates = committee
                        /\ epoch.numSubEpochs = sub
                        /\ epoch.numSubEpochs >= 1
                        /\ last.produced = <<P(newCEvt(eGenerateDKG, now, roundNum), 0)>>
                        /\ evtq # << >>
                        /\ evtq[Len(evtq)] = newCEvt(eGenerateDKG, now, roundNum)
                   ELSE /\ state = sEpochStart
                        /\ last.produced
                             = <<P(newCEvt(eRollDelegates, now, roundNum), DelegateInterval)>>
                        /\ BagCardinality(delayed) = 1
                        /\ BagIn([evt |-> newCEvt(eRollDelegates, now, roundNum),
                                  due |-> now + DelegateInterval], delayed))

\* a delegate configured without sub-epochs has entered an epoch of one
C30_Witness ==
  /\ last.outcome = "handled"
  /\ last.evt.t = eRollDelegates
  /\ cfg.NumSubEpochs = 0
  /\ state = sDKGGeneration
  /\ epoch.numSubEpochs = 1

\* C31: handling FinishEpoch in RoundStart.  When the tip has reached the last
\* height of the epoch exactly one event is produced, RollDelegates without
\* delay, and the state is EpochStart; otherwise exactly one event is
\* produced, StartRound after at most ProposerInterval, and the state stays
\* RoundStart.
C31_FinishEpoch ==
  (last.outcome = "handled" /\ last.evt.t = eFinishEpoch)
  => /\ last.src = sRoundStart
     /\ Len(last.produced) = 1
     /\ IF tip >= epoch.height + Len(epoch.delegates) * epoch.numSubEpochs - 1
        THEN /\ state = sEpochStart
             /\ last.produced[1] = P(newCEvt(eRollDelegates, now, roundNum), 0)
             /\ evtq # << >>
             /\ evtq[Len(evtq)] = newCEvt(eRollDelegates, now, roundNum)
        ELSE /\ state = sRoundStart
             /\ last.produced[1].evt = newCEvt(eStartRound, now, roundNum)
             /\ last.produced[1].delay \in 0..cfg.ProposerInterval
             /\ \/ /\ last.produced[1].delay = 0
                   /\ evtq # << >>
                   /\ evtq[Len(evtq)] = newCEvt(eStartRound, now, roundNum)
                \/ /\ last.produced[1].delay > 0
                   /\ BagIn([evt |-> newCEvt(eStartRound, now, roundNum),
                             due |-> now + last.produced[1].delay], delayed)

\* the last block of the epoch is committed and the delegates are rolled again
C31_Witness ==
  /\ last.outcome = "handled"
  /\ last.evt.t = eFinishEpoch
  /\ tip = epoch.height + Len(epoch.delegates) * epoch.numSubEpochs - 1
  /\ state = sEpochStart

\* a proposal of this node's own minting (no remote proposal carries this
\* node's address with a signature that verifies)
OwnProposal(evt) ==
  /\ evt.kind = "proposeBlkEvt"
  /\ evt.block.producer = addr
  /\ evt.block.sigOK

\* C32: handling InitBlock in InitPropose mints a block at the tip, produces
\* without delay a ProposeBlock carrying that block, hands the same block to
\* Broadcast and moves to AcceptPropose; the ProposeBlock waits in the channel
\* while the FSM is in AcceptPropose in the same round, and once dequeued it is
\* handled as a proposal: the block becomes the round's block and the node
\* produces and broadcasts its own EndorseProposal in favour of it.
C32_InitBlock ==
  /\ (last.outcome = "handled" /\ last.evt.t = eInitBlock)
     => /\ last.src = sInitPropose
        /\ state = sAcceptPropose
        /\ Len(last.produced) = 1
        /\ last.produced[1].delay = 0
        /\ OwnProposal(last.produced[1].evt)
        /\ last.produced[1].evt.block.height = tip + 1
        /\ ~last.produced[1].evt.block.dummy
        /\ last.bcast = <<ProposePb(last.produced[1].evt.block)>>
        /\ evtq # << >>
        /\ evtq[Len(evtq)] = last.produced[1].evt
  /\ \A i \in 1..Len(evtq) :
       OwnProposal(evtq[i])
       => /\ state = sAcceptPropose
          /\ round.proposer = addr
          /\ evtq[i].block.height = round.height
          /\ round.block = NilBlock
  /\ (OwnProposal(last.evt) /\ last.outcome # "none")
     => /\ last.outcome \in {"handled", "error"}
        /\ last.src = sAcceptPropose
        /\ last.outcome = "handled"
           => LET own == [topic |-> endorseProposal, height |-> round.height,
                          blkHash |-> HashBlock(last.evt.block), decision |-> TRUE,
                          endorser |-> addr, sigOK |-> TRUE]
              IN  /\ state = sAcceptProposalEndorse
                  /\ round.block = last.evt.block
                  /\ last.produced[1] = P(newEndorseEvtWithEndorse(own, now, roundNum), 0)
                  /\ last.bcast = <<EndorsePb(own)>>

\* the proposer has endorsed the block it minted
C32_Witness ==
  /\ OwnProposal(last.evt)
  /\ last.outcome = "handled"
  /\ state = sAcceptProposalEndorse
  /\ round.block = last.evt.block
  /\ round.proposer = addr

\* the worker handled an endorsement that passes the tests of its handler:
\* the topic of the state and, for a proposal endorsement, the round's height
PassedEndorse ==
  /\ last.outcome = "handled"
  /\ last.evt.kind = "endorseEvt"
  /\ \/ /\ last.src = sAcceptProposalEndorse
        /\ LastEn.topic = endorseProposal
        /\ LastEn.height = round.height
     \/ /\ last.src = sAcceptCommitEndorse
        /\ LastEn.topic = endorseCommit

\* the tally the endorsement went to
TallyOf(en) ==
  IF en.topic = endorseProposal THEN round.proposalEndorses ELSE round.commitEndorses

\* C33: an endorsement that passes the topic test (and for proposals the
\* height test) is written into the tally under its endorser's address,
\* whether or not the address is in the committee and whether or not its
\* signature verifies, and the quorum is taken over every entry of the tally:
\* the FSM leaves the accept state exactly when the entries in favour, or
\* those against, of whatever origin, number at least the quorum size.
C33_TalliedByAddressAlone ==
  PassedEndorse
  => LET m == TallyOf(LastEn)
         need == QuorumSize(Len(epoch.delegates))
     IN  /\ LastEn.blkHash \in DOMAIN m
         /\ LastEn.endorser \in DOMAIN m[LastEn.blkHash]
         /\ m[LastEn.blkHash][LastEn.endorser] = LastEn.decision
         /\ state # last.src
            <=> \/ CountVotes(m, LastEn.blkHash, TRUE) >= need
                \/ CountVotes(m, LastEn.blkHash, FALSE) >= need

\* an endorsement from outside the committee, with no signature that
\* verifies, completes a quorum the committee's own endorsements do not make
C33_Witness ==
  /\ PassedEndorse
  /\ ~isDelegate(LastEn.endorser, epoch.delegates)
  /\ ~LastEn.sigOK
  /\ state # last.src
  /\ LET m == TallyOf(LastEn)
     IN  Cardinality({a \in DOMAIN m[LastEn.blkHash] :
                        isDelegate(a, epoch.delegates)})
           < QuorumSize(Len(epoch.delegates))

\* C34, as the specification states it: the worker is never left inside a send
\* to its own channel; an undelayed event a handler produces is enqueued and
\* the worker returns to dequeuing, however full other producers keep the
\* channel.  The send of produce is a blocking one and the worker is the only
\* receiver.
C34_WorkerNeverBlocked == blocked = << >>

\* the states of a round in progress
InRound == state \in {sInitPropose, sAcceptPropose, sAcceptProposalEndorse, sAcceptCommitEndorse}

\* C35, as the specification states it: while a round is in progress an event
\* with a transition out of the current state is waiting, in the channel or
\* with a delayed producer.
C35_RoundAlwaysHasPending == InRound => PendingFor(state) # {}

\* the same, for the runs in which no call of a collaborator fails
C35_NoErrorPending == (InRound /\ net.profile # "silent") => PendingFor(state) # {}

\* C36, as the specification states it: when a commit endorsement completes a
\* yes quorum and a block that is not a dummy is given to CommitBlock, the hash
\* of that block is the hash under which the quorum was counted.
C36_CommittedHashHasQuorum ==
  (/\ TalliedCommit
   /\ last.commits # << >>
   /\ ~last.commits[1].blk.dummy)
  => HashBlock(last.commits[1].blk) = LastEn.blkHash

\* C37: between two StartRound events handled, chain.CommitBlock is called at
\* most once: the handler that calls it leaves AcceptCommitEndorse for
\* RoundStart, where commit endorsements and commit timeouts have no
\* transition.
C37_OneCommitPerRound == committed <= 1

\* a block has been committed and a commit endorsement or a commit timeout of
\* the round is taken from the channel in RoundStart
C37_Witness ==
  /\ committed = 1
  /\ state = sRoundStart
  /\ last.outcome \in {"requeued", "dropped"}
  /\ last.evt.t \in {eEndorseCommit, eEndorseCommitTimeout}

\* C38, as the specification states it: the handler that ends a round
\* broadcasts the block and resets the action pool only after a CommitBlock
\* that succeeded.  The error of CommitBlock is logged and nothing else.
C38_BroadcastOnlyCommitted ==
  (/\ last.outcome = "handled"
   /\ last.commits # << >>
   /\ (last.bcast # << >> \/ last.reset))
  => last.commits[1].ok

\* C39: redelivery ends.  An event without an edge is produced again only
\* while its age is within UnmatchedEventTTL, with the timestamp it had and
\* for a clock reading later than the present one; so the readings at which
\* one event is produced again are distinct,
\* UnmatchedEventInterval apart and at most UnmatchedEventTTL \div
\* UnmatchedEventInterval + 1 in number, and no
\* event produced again waits for a reading later than its timestamp plus
\* UnmatchedEventTTL plus UnmatchedEventInterval.
C39_RedeliveryEnds ==
  /\ [](\A d \in BagToSet(delayed) :
          d.due <= d.evt.ts + UnmatchedEventTTL + UnmatchedEventInterval)
  /\ [][last'.outcome = "requeued" =>
          LET again == [evt |-> Head(evtq), due |-> now + UnmatchedEventInterval]
          IN  /\ now - Head(evtq).ts <= UnmatchedEventTTL
              /\ again.due > now
              /\ delayed' = delayed (+) SetToBag({again})]_vars

\* the last redelivery of an event: it has no edge and its age is the TTL
C39_Witness ==
  /\ last.outcome = "requeued"
  /\ now - last.evt.ts = UnmatchedEventTTL
  /\ BagIn([evt |-> last.evt, due |-> now + UnmatchedEventInterval], delayed)

\* C40, as the specification states it: BuildIndex, and HandleBlock, return
\* an error if one of the nine updates failed, and nil only if every table was
\* updated.  BuildIndex drops what Transact returns and returns nil.
C40_BuildIndexReportsFailure ==
  (call.op \in {"BuildIndex", "HandleBlock"} /\ call.res # << >>)
  => /\ (\E i \in DOMAIN call.arg : call.arg[i]) => call.res[1].err # ""
     /\ call.res[1].err = ""
          => call.res[1].tables = {IndexUpdates[i].table : i \in DOMAIN IndexUpdates}

====
